---- MODULE Spec2Model ----
(***************************************************************************)
(* Model of the answer-scoring engine of nat5_study_platform:              *)
(*   assessment_engine/evaluator.py  (ResponseEvaluator)                   *)
(*   learning_support/hints.py       (HintGenerator)                       *)
(* Texts are TLA+ strings; a character is a string of length 1 and         *)
(* positions are 1-based (Python position p is position p+1 here).         *)
(* An optional value (Python None or a value) is a sequence of length 0    *)
(* or 1.                                                                   *)
(***************************************************************************)
EXTENDS Integers, Sequences, FiniteSets, TLC

VARIABLES question, marking_scheme, feedback_level, hint_levels,
          responses, sub_ids, result,
          phase, nltk_data, network, downloads,
          user_responses, uuids, db_call, requests

vars == <<question, marking_scheme, feedback_level, hint_levels,
          responses, sub_ids, result, phase, nltk_data, network, downloads,
          user_responses, uuids, db_call, requests>>

\* the process around the engine: phase is "starting" until main.py has
\* set up the environment and "serving" from then on, nltk_data the NLTK
\* resources installed, network whether a download can succeed, downloads
\* the number of nltk.download calls the last request made
process == <<phase, nltk_data, network, downloads>>

\* the JSON store and the hint requests in flight: user_responses is the
\* list of documents of the user_responses collection, uuids the number of
\* identifiers uuid.uuid4 has generated, db_call the last call of a
\* Database method, requests the position of each client's /api/hint
\* request
store == <<user_responses, uuids, db_call, requests>>

(***************************************************************************)
(* Optional values                                                         *)
(***************************************************************************)
None == <<>>

Some(v) == <<v>>

IsNone(o) == o = <<>>

Val(o) == o[1]

(***************************************************************************)
(* Characters and Python string methods                                    *)
(***************************************************************************)
Ch(s, i) == IF i >= 1 /\ i <= Len(s) THEN SubSeq(s, i, i) ELSE ""

Sub(s, i, j) == IF i > j THEN "" ELSE SubSeq(s, i, j)

From(s, i) == Sub(s, i, Len(s))

UpperLetters == "ABCDEFGHIJKLMNOPQRSTUVWXYZ"

LowerLetters == "abcdefghijklmnopqrstuvwxyz"

Digits == "0123456789"

CharsOf(s) == {SubSeq(s, i, i) : i \in 1..Len(s)}

UpperChars == CharsOf(UpperLetters)

LowerChars == CharsOf(LowerLetters)

DigitChars == CharsOf(Digits)

AlnumChars == UpperChars \cup LowerChars \cup DigitChars

SpaceChars == {" ", "\n", "\t", "\r", "\f"}

IsDigit(c) == c \in DigitChars

IsSpace(c) == c \in SpaceChars

IsAlnumChar(c) == c \in AlnumChars

ToLower ==
    [c \in UpperChars |->
        LET i == CHOOSE k \in 1..Len(UpperLetters) : SubSeq(UpperLetters, k, k) = c
        IN  SubSeq(LowerLetters, i, i)]

ToUpper ==
    [c \in LowerChars |->
        LET i == CHOOSE k \in 1..Len(LowerLetters) : SubSeq(LowerLetters, k, k) = c
        IN  SubSeq(UpperLetters, i, i)]

LowerChar(c) == IF c \in UpperChars THEN ToLower[c] ELSE c

UpperChar(c) == IF c \in LowerChars THEN ToUpper[c] ELSE c

\* str.lower(), character by character (halving keeps the recursion shallow)
RECURSIVE lower(_)
lower(s) ==
    IF Len(s) <= 1 THEN LowerChar(s)
    ELSE lower(SubSeq(s, 1, Len(s) \div 2)) \o lower(SubSeq(s, Len(s) \div 2 + 1, Len(s)))

RECURSIVE FirstNonSpace(_, _)
FirstNonSpace(s, i) ==
    IF i > Len(s) \/ ~IsSpace(Ch(s, i)) THEN i ELSE FirstNonSpace(s, i + 1)

RECURSIVE LastNonSpace(_, _)
LastNonSpace(s, j) ==
    IF j < 1 \/ ~IsSpace(Ch(s, j)) THEN j ELSE LastNonSpace(s, j - 1)

strip(s) == Sub(s, FirstNonSpace(s, 1), LastNonSpace(s, Len(s)))

isalnum(s) == s # "" /\ \A i \in 1..Len(s) : IsAlnumChar(Ch(s, i))

\* lit occurs in s at position i
OccursAt(s, i, lit) == i >= 1 /\ i + Len(lit) - 1 <= Len(s) /\ Sub(s, i, i + Len(lit) - 1) = lit

\* Python "lit in s"
Contains(s, lit) == \E i \in 1..(Len(s) + 1) : OccursAt(s, i, lit)

\* end of the maximal run of characters satisfying the class, starting at i
\* (returns the position after the run; i itself when the run is empty)
RECURSIVE SpaceRunEnd(_, _)
SpaceRunEnd(s, i) == IF i <= Len(s) /\ IsSpace(Ch(s, i)) THEN SpaceRunEnd(s, i + 1) ELSE i

RECURSIVE DigitRunEnd(_, _)
DigitRunEnd(s, i) == IF i <= Len(s) /\ IsDigit(Ch(s, i)) THEN DigitRunEnd(s, i + 1) ELSE i

RECURSIVE NonSpaceRunEnd(_, _)
NonSpaceRunEnd(s, i) == IF i <= Len(s) /\ ~IsSpace(Ch(s, i)) THEN NonSpaceRunEnd(s, i + 1) ELSE i

\* str.split(): the whitespace-separated words of s.  A long text is cut
\* at a whitespace character near its middle and the halves are split
\* separately, which keeps the recursion shallow.
RECURSIVE SplitFrom(_, _)
SplitFrom(s, i) ==
    LET b == SpaceRunEnd(s, i)
    IN  IF b > Len(s) THEN <<>>
        ELSE LET e == NonSpaceRunEnd(s, b)
             IN  <<Sub(s, b, e - 1)>> \o SplitFrom(s, e)

RECURSIVE SpaceBefore(_, _)
SpaceBefore(s, j) == IF j < 1 \/ IsSpace(Ch(s, j)) THEN j ELSE SpaceBefore(s, j - 1)

RECURSIVE split(_)
split(s) ==
    IF Len(s) <= 16 THEN SplitFrom(s, 1)
    ELSE LET m == Len(s) \div 2
             c == IF NonSpaceRunEnd(s, m) <= Len(s) THEN NonSpaceRunEnd(s, m) ELSE SpaceBefore(s, m)
         IN  IF c < 1 THEN <<s>>
             ELSE split(Sub(s, 1, c - 1)) \o split(Sub(s, c + 1, Len(s)))

RECURSIVE Join(_, _)
Join(sep, seq) ==
    IF seq = <<>> THEN ""
    ELSE IF Len(seq) = 1 THEN seq[1]
    ELSE seq[1] \o sep \o Join(sep, Tail(seq))

(***************************************************************************)
(* Normalisation resources of the evaluator (evaluator.py:35-36).          *)
(* nltk.word_tokenize: whitespace-separated chunks; within a chunk the     *)
(* Treebank rules split off ? ! ; always, : and , unless a digit follows,  *)
(* and a final period.  Everything else (hyphens, inner periods) stays in  *)
(* the token and is later rejected by isalnum().                           *)
(***************************************************************************)
AlwaysSplit == {"?", "!", ";"}

SplitsHere(c, i) ==
    \/ Ch(c, i) \in AlwaysSplit
    \/ Ch(c, i) \in {":", ","} /\ ~IsDigit(Ch(c, i + 1))

NonEmpty(t) == IF t = "" THEN <<>> ELSE <<t>>

RECURSIVE ChunkTokens(_, _, _)
ChunkTokens(c, i, cur) ==
    IF i > Len(c) THEN NonEmpty(cur)
    ELSE IF SplitsHere(c, i)
         THEN NonEmpty(cur) \o <<Ch(c, i)>> \o ChunkTokens(c, i + 1, "")
         ELSE ChunkTokens(c, i + 1, cur \o Ch(c, i))

TokenizeChunk(c) ==
    IF Len(c) > 1 /\ Ch(c, Len(c)) = "." /\ Ch(c, Len(c) - 1) # "."
    THEN ChunkTokens(Sub(c, 1, Len(c) - 1), 1, "") \o <<".">>
    ELSE ChunkTokens(c, 1, "")

RECURSIVE TokenizeChunks(_)
TokenizeChunks(chunks) ==
    IF chunks = <<>> THEN <<>>
    ELSE IF Len(chunks) = 1 THEN TokenizeChunk(chunks[1])
    ELSE TokenizeChunks(SubSeq(chunks, 1, Len(chunks) \div 2))
         \o TokenizeChunks(SubSeq(chunks, Len(chunks) \div 2 + 1, Len(chunks)))

word_tokenize(s) == TokenizeChunks(split(s))

\* stopwords.words('english'), the entries without an apostrophe
stop_words ==
    {"i", "me", "my", "myself", "we", "our", "ours", "ourselves", "you", "your",
     "yours", "yourself", "yourselves", "he", "him", "his", "himself", "she",
     "her", "hers", "herself", "it", "its", "itself", "they", "them", "their",
     "theirs", "themselves", "what", "which", "who", "whom", "this", "that",
     "these", "those", "am", "is", "are", "was", "were", "be", "been", "being",
     "have", "has", "had", "having", "do", "does", "did", "doing", "a", "an",
     "the", "and", "but", "if", "or", "because", "as", "until", "while", "of",
     "at", "by", "for", "with", "about", "against", "between", "into",
     "through", "during", "before", "after", "above", "below", "to", "from",
     "up", "down", "in", "out", "on", "off", "over", "under", "again",
     "further", "then", "once", "here", "there", "when", "where", "why", "how",
     "all", "any", "both", "each", "few", "more", "most", "other", "some",
     "such", "no", "nor", "not", "only", "own", "same", "so", "than", "too",
     "very", "s", "t", "can", "will", "just", "don", "should", "now", "d", "ll",
     "m", "o", "re", "ve", "y", "ain", "aren", "couldn", "didn", "doesn",
     "hadn", "hasn", "haven", "isn", "ma", "mightn", "mustn", "needn", "shan",
     "shouldn", "wasn", "weren", "won", "wouldn"}

\* The noun entries of WordNet that the words of the modelled texts can
\* reduce to (WordNetLemmatizer.lemmatize looks candidates up in WordNet).
WordNetNouns ==
    {"plant", "use", "chlorophyll", "photosynthesis", "mention", "light",
     "energy", "cell", "leaf", "sun", "water", "answer", "mass", "force",
     "glucose", "oxygen", "pad", "gas"}

\* WordNet's detachment rules for nouns: <<suffix, replacement>>
NounRules ==
    <<<<"s", "">>, <<"ses", "s">>, <<"ves", "f">>, <<"xes", "x">>, <<"zes", "z">>,
      <<"ches", "ch">>, <<"shes", "sh">>, <<"men", "man">>, <<"ies", "y">>>>

EndsWith(w, suf) == Len(w) >= Len(suf) /\ Sub(w, Len(w) - Len(suf) + 1, Len(w)) = suf

\* the forms of w that are WordNet nouns: w itself and every rule result
Candidates(w) ==
    {f \in {w} \cup {Sub(w, 1, Len(w) - Len(NounRules[k][1])) \o NounRules[k][2] :
                       k \in {j \in 1..Len(NounRules) : EndsWith(w, NounRules[j][1])}} :
        f \in WordNetNouns}

\* WordNetLemmatizer.lemmatize(word) with the default pos: the shortest
\* WordNet form, the word itself when there is none
lemmatize(w) ==
    LET c == Candidates(w)
    IN  IF c = {} THEN w
        ELSE CHOOSE f \in c : \A g \in c : Len(f) <= Len(g)

\* the comprehension [lemmatize(token.lower()) for token in tokens if ...]
RECURSIVE NormalizeTokens(_, _)
NormalizeTokens(tokens, minLen) ==
    IF tokens = <<>> THEN <<>>
    ELSE IF Len(tokens) = 1
    THEN LET t == tokens[1]
         IN  IF lower(t) \notin stop_words /\ isalnum(t) /\ Len(t) > minLen
             THEN <<lemmatize(lower(t))>> ELSE <<>>
    ELSE NormalizeTokens(SubSeq(tokens, 1, Len(tokens) \div 2), minLen)
         \o NormalizeTokens(SubSeq(tokens, Len(tokens) \div 2 + 1, Len(tokens)), minLen)

\* evaluator.py:205-209 (response tokens: no length filter)
ResponseTokens(text) == NormalizeTokens(word_tokenize(text), 0)

\* evaluator.py:375-379 and 388-392 (keywords: len(token) > 2)
Keywords(text) == NormalizeTokens(word_tokenize(text), 2)

(***************************************************************************)
(* Regular expressions of the scoring policies.  A search result is an     *)
(* optional value: None when re.search finds nothing.                      *)
(***************************************************************************)
\* case-insensitive literal at position i (re.IGNORECASE)
OccursAtCI(s, i, lit) ==
    i >= 1 /\ i + Len(lit) - 1 <= Len(s) /\ lower(Sub(s, i, i + Len(lit) - 1)) = lit

\* [:\s]+ : position after the maximal run from i (i itself when empty)
RECURSIVE ColonSpaceRunEnd(_, _)
ColonSpaceRunEnd(s, i) ==
    IF i <= Len(s) /\ (Ch(s, i) = ":" \/ IsSpace(Ch(s, i)))
    THEN ColonSpaceRunEnd(s, i + 1) ELSE i

IsOptionLetter(c) == c # "" /\ LowerChar(c) \in {"a", "b", "c", "d", "e"}

\* the keyword alternation at i, in the order the pattern tries it:
\* the end positions of the alternatives that occur at i (at most one does:
\* the alternatives start with different characters)
KeywordEnd(s, i, keywords) ==
    LET hits == {k \in 1..Len(keywords) : OccursAtCI(s, i, keywords[k])}
    IN  IF hits = {} THEN {}
        ELSE {i + Len(keywords[k]) : k \in hits}

\* (?:correct answer|answer)[:\s]+([a-e]) matched at start position i:
\* the captured letter, or None
AnswerLetterAt(s, i) ==
    LET ok == {e \in KeywordEnd(s, i, <<"correct answer", "answer">>) :
                  ColonSpaceRunEnd(s, e) > e /\ IsOptionLetter(Ch(s, ColonSpaceRunEnd(s, e)))}
    IN  IF ok = {} THEN None
        ELSE LET e == CHOOSE x \in ok : TRUE IN Some(Ch(s, ColonSpaceRunEnd(s, e)))

\* ([a-e])(?:\s+is correct|\s+correct) matched at start position i
LetterIsCorrectAt(s, i) ==
    LET e == SpaceRunEnd(s, i + 1)
    IN  IF IsOptionLetter(Ch(s, i)) /\ e > i + 1
           /\ (OccursAtCI(s, e, "is correct") \/ OccursAtCI(s, e, "correct"))
        THEN Some(Ch(s, i)) ELSE None

\* re.search: the match at the leftmost start position
RECURSIVE SearchAnswerLetter(_, _)
SearchAnswerLetter(s, i) ==
    IF i > Len(s) THEN None
    ELSE IF ~IsNone(AnswerLetterAt(s, i)) THEN AnswerLetterAt(s, i)
    ELSE SearchAnswerLetter(s, i + 1)

RECURSIVE SearchLetterIsCorrect(_, _)
SearchLetterIsCorrect(s, i) ==
    IF i > Len(s) THEN None
    ELSE IF ~IsNone(LetterIsCorrectAt(s, i)) THEN LetterIsCorrectAt(s, i)
    ELSE SearchLetterIsCorrect(s, i + 1)

\* [-+]?\d*\.?\d+ matched at position i: the matched text, or None.
\* With the sign taken: digits, then either ".digits" or (backtracking
\* \d*) the digits alone; ".digits" when there are no leading digits.
NumberAt(s, i) ==
    LET p == IF Ch(s, i) \in {"-", "+"} THEN i + 1 ELSE i
        d == DigitRunEnd(s, p)
        f == IF Ch(s, d) = "." THEN DigitRunEnd(s, d + 1) ELSE d
    IN  IF f > d + 1 THEN Some(Sub(s, i, f - 1))
        ELSE IF d > p THEN Some(Sub(s, i, d - 1))
        ELSE None

\* (?:correct answer|answer|=)[:\s]+([-+]?\d*\.?\d+) at start position i
TargetNumberAt(s, i) ==
    LET ok == {e \in KeywordEnd(s, i, <<"correct answer", "answer", "=">>) :
                  ColonSpaceRunEnd(s, e) > e /\ ~IsNone(NumberAt(s, ColonSpaceRunEnd(s, e)))}
    IN  IF ok = {} THEN None
        ELSE LET e == CHOOSE x \in ok : TRUE IN NumberAt(s, ColonSpaceRunEnd(s, e))

RECURSIVE SearchNumber(_, _)
SearchNumber(s, i) ==
    IF i > Len(s) THEN None
    ELSE IF ~IsNone(NumberAt(s, i)) THEN NumberAt(s, i)
    ELSE SearchNumber(s, i + 1)

\* variant: the target is the first number anywhere in the marking text
SearchTargetAnyNumber(s, i) == SearchNumber(s, i)

RECURSIVE SearchTargetNumber(_, _)
SearchTargetNumber(s, i) ==
    IF i > Len(s) THEN None
    ELSE IF ~IsNone(TargetNumberAt(s, i)) THEN TargetNumberAt(s, i)
    ELSE SearchTargetNumber(s, i + 1)

(***************************************************************************)
(* float(): a parsed numeral is the exact decimal n / 10^FracDigits (neg   *)
(* keeps the sign of "-0").  Python compares IEEE doubles, so the rounding *)
(* of float() is modelled where it decides the comparison: RoundErr is the *)
(* signed distance from the decimal to its nearest double, in units of     *)
(* ulp / 5^FracDigits.  The numerals of the modelled inputs have at most   *)
(* FracDigits fraction digits.                                             *)
(***************************************************************************)
FracDigits == 4

RECURSIVE Pow(_, _)
Pow(b, k) == IF k = 0 THEN 1 ELSE b * Pow(b, k - 1)

Scale == Pow(10, FracDigits)

DigitValue(c) == (CHOOSE k \in 1..10 : SubSeq(Digits, k, k) = c) - 1

RECURSIVE DigitsValue(_)
DigitsValue(t) == IF t = "" THEN 0 ELSE DigitsValue(Sub(t, 1, Len(t) - 1)) * 10 + DigitValue(Ch(t, Len(t)))

RECURSIVE PadZeros(_, _)
PadZeros(t, n) == IF Len(t) >= n THEN t ELSE PadZeros(t \o "0", n)

\* float(text) for text matching [-+]?\d*\.?\d+
float(text) ==
    LET neg  == Ch(text, 1) = "-"
        body == IF Ch(text, 1) \in {"-", "+"} THEN From(text, 2) ELSE text
        d    == DigitRunEnd(body, 1)
        ip   == Sub(body, 1, d - 1)
        fp   == IF Ch(body, d) = "." THEN From(body, d + 1) ELSE ""
        mag  == DigitsValue(ip) * Scale + DigitsValue(Sub(PadZeros(fp, FracDigits), 1, FracDigits))
    IN  [neg |-> neg, n |-> IF neg THEN 0 - mag ELSE mag]

Abs(x) == IF x < 0 THEN 0 - x ELSE x

\* the binary exponent e of m / Scale (2^e <= m / Scale < 2^(e+1)), m > 0
RECURSIVE ExpUp(_, _)
ExpUp(m, e) == IF m < 2 * Pow(2, e) * Scale THEN e ELSE ExpUp(m, e + 1)

RECURSIVE ExpDown(_, _)
ExpDown(m, k) == IF m * Pow(2, k) >= Scale THEN 0 - k ELSE ExpDown(m, k + 1)

Exponent(m) == IF m >= Scale THEN ExpUp(m, 0) ELSE ExpDown(m, 1)

RECURSIVE Pow2Mod(_, _)
Pow2Mod(k, q) == IF k = 0 THEN 1 % q ELSE (2 * Pow2Mod(k - 1, q)) % q

MantissaBits == 52

\* nearest double minus decimal, for x = n / Scale, in units of
\* 2^(Exponent - MantissaBits) / 5^FracDigits
RoundErr(n) ==
    LET m == Abs(n)
        q == Pow(5, FracDigits)
        r == IF m = 0 THEN 0
             ELSE ((m % q) * Pow2Mod(MantissaBits - Exponent(m) - FracDigits, q)) % q
        e == IF 2 * r < q THEN 0 - r ELSE q - r
    IN  IF n < 0 THEN 0 - e ELSE e

\* variant: the comparison in exact decimal arithmetic
WithinToleranceDecimal(v, t) == Abs(v.n - t.n) < Pow(10, FracDigits - 3)

\* abs(response_value - correct_answer) < 0.001 on doubles (evaluator.py:175).
\* Away from the boundary the decimals decide.  At a decimal distance of
\* exactly 0.001 the subtraction of the two doubles is exact and the result
\* is below the double 0.001 iff the rounding errors shorten the distance
\* (stated for operands of magnitude >= 1, where one error unit exceeds
\* the excess of the double 0.001 over 1/1000).
WithinTolerance(v, t) ==
    LET dist == Abs(v.n - t.n)
        tol  == Pow(10, FracDigits - 3)
        emin == IF Exponent(Abs(v.n)) < Exponent(Abs(t.n)) THEN Exponent(Abs(v.n)) ELSE Exponent(Abs(t.n))
        ev   == RoundErr(v.n) * Pow(2, Exponent(Abs(v.n)) - emin)
        et   == RoundErr(t.n) * Pow(2, Exponent(Abs(t.n)) - emin)
    IN  IF dist < tol THEN TRUE
        ELSE IF dist > tol THEN FALSE
        ELSE IF v.n > t.n THEN ev - et < 0 ELSE et - ev < 0

\* f"{x}" for a double x: repr() prints the shortest decimal that reads
\* back as x, with at least one fraction digit
RECURSIVE StripZeros(_)
StripZeros(t) == IF Len(t) > 1 /\ Ch(t, Len(t)) = "0" THEN StripZeros(Sub(t, 1, Len(t) - 1)) ELSE t

FormatFloat(x) ==
    LET m  == Abs(x.n)
        fr == ToString(Scale + (m % Scale))
    IN  (IF x.neg THEN "-" ELSE "") \o ToString(m \div Scale) \o "."
        \o StripZeros(Sub(fr, 2, Len(fr)))

(***************************************************************************)
(* Key-point extraction (evaluator.py:355-395).  A key-point dictionary is *)
(* a sequence of [point, keywords] records with distinct points, in        *)
(* insertion order (a Python dict).                                        *)
(***************************************************************************)
\* (?:\*|\-|\d+\.) at position i: the position after the marker, 0 if none
MarkerEnd(s, i) ==
    IF Ch(s, i) \in {"*", "-"} THEN i + 1
    ELSE IF DigitRunEnd(s, i) > i /\ Ch(s, DigitRunEnd(s, i)) = "." THEN DigitRunEnd(s, i) + 1
    ELSE 0

\* ^ under re.MULTILINE
LineStart(s, i) == i = 1 \/ Ch(s, i - 1) = "\n"

\* $ under re.MULTILINE
LineEnd(s, i) == i = Len(s) + 1 \/ Ch(s, i) = "\n"

\* (?:^|\n)(?:\*|\-|\d+\.) at start position i: the position after the
\* marker, 0 if there is no match; with the greedy \s+ after it,
\* BulletStartAt is the position where the captured group begins
MarkerAt(s, i) ==
    IF LineStart(s, i) /\ MarkerEnd(s, i) > 0 THEN MarkerEnd(s, i)
    ELSE IF Ch(s, i) = "\n" /\ MarkerEnd(s, i + 1) > 0 THEN MarkerEnd(s, i + 1)
    ELSE 0

\* \s+ after a marker that ends before position m (m = 0: no marker)
AfterSpaces(s, m) == IF m > 0 /\ SpaceRunEnd(s, m) > m THEN SpaceRunEnd(s, m) ELSE 0

BulletStartAt(s, i) == AfterSpaces(s, MarkerAt(s, i))

\* the lookahead (?=(?:^|\n)(?:\*|\-|\d+\.)|$) at position j
BulletLookahead(s, j) == MarkerAt(s, j) > 0 \/ LineEnd(s, j)

\* (.*?) under re.DOTALL: the first position at or after j where the
\* lookahead holds
RECURSIVE BulletGroupEnd(_, _)
BulletGroupEnd(s, j) == IF BulletLookahead(s, j) THEN j ELSE BulletGroupEnd(s, j + 1)

\* key_points[point] = keywords
AddPoint(kp, point, keywords) ==
    IF \E k \in 1..Len(kp) : kp[k].point = point
    THEN [k \in 1..Len(kp) |-> IF kp[k].point = point
                               THEN [point |-> point, keywords |-> keywords] ELSE kp[k]]
    ELSE Append(kp, [point |-> point, keywords |-> keywords])

\* re.finditer(bullet_pattern, ...) from search position i, and the loop
\* over its matches (evaluator.py:369-380)
RECURSIVE BulletPoints(_, _, _)
\* the loop body: point = match.group(1).strip(); if point: ...
WithPoint(kp, point) == IF point # "" THEN AddPoint(kp, point, Keywords(point)) ELSE kp

\* a match whose group spans g .. e - 1; the next search starts at e
BulletGroup(s, g, e, kp) == BulletPoints(s, e, WithPoint(kp, strip(Sub(s, g, e - 1))))

\* g = BulletStartAt(s, i)
BulletMatch(s, i, g, kp) ==
    IF g = 0 THEN BulletPoints(s, i + 1, kp) ELSE BulletGroup(s, g, BulletGroupEnd(s, g), kp)

BulletPoints(s, i, kp) ==
    IF i > Len(s) THEN kp ELSE BulletMatch(s, i, BulletStartAt(s, i), kp)

\* re.split(r'(?<=[.!?])\s+', text)
RECURSIVE SplitSentences(_, _, _)
SplitSentences(s, i, start) ==
    IF i > Len(s) THEN <<From(s, start)>>
    ELSE IF IsSpace(Ch(s, i)) /\ Ch(s, i - 1) \in {".", "!", "?"}
         THEN <<Sub(s, start, i - 1)>> \o SplitSentences(s, SpaceRunEnd(s, i), SpaceRunEnd(s, i))
         ELSE SplitSentences(s, i + 1, start)

MinSentenceLen == 10

\* the loop over the sentences (evaluator.py:385-393)
WithSentence(kp, sentence) ==
    IF Len(sentence) > MinSentenceLen
    THEN AddPoint(kp, strip(sentence), Keywords(sentence)) ELSE kp

RECURSIVE SentencePoints(_, _)
SentencePoints(sentences, kp) ==
    IF sentences = <<>> THEN kp
    ELSE SentencePoints(Tail(sentences), WithSentence(kp, Head(sentences)))

\* variant: the sentences are added to the bullet points
BulletsAndSentences(bullets, marking_text) ==
    SentencePoints(SplitSentences(marking_text, 1, 1), bullets)

\* "if not key_points:" after the bullet loop (evaluator.py:383)
BulletsOrSentences(bullets, marking_text) ==
    IF bullets # <<>> THEN bullets
    ELSE SentencePoints(SplitSentences(marking_text, 1, 1), <<>>)

_extract_key_points(marking_text) ==
    BulletsOrSentences(BulletPoints(marking_text, 1, <<>>), marking_text)

(***************************************************************************)
(* Scoring policies.  A policy outcome records what the policy returned    *)
(* (score, feedback) or the exception it raised, and the locals the        *)
(* properties speak about: the points found and missed, the number of key  *)
(* points and the response's word count.                                   *)
(***************************************************************************)
Returned(score, feedback) ==
    [raised |-> "", score |-> score, feedback |-> feedback,
     found |-> <<>>, missed |-> <<>>, total |-> 0, word_count |-> 0]

Raised(exception) ==
    [raised |-> exception, score |-> 0, feedback |-> "",
     found |-> <<>>, missed |-> <<>>, total |-> 0, word_count |-> 0]

\* the first pattern's match if there is one, else the second's
FirstMatch(first, second) == IF ~IsNone(first) THEN first ELSE second

\* evaluator.py:125-140, match being the pattern match found (or None)
MultipleChoiceMark(response, match, max_marks) ==
    IF IsNone(match)
    THEN Returned(0, "Error: Could not determine the correct answer.")
    ELSE IF response = LowerChar(Val(match))
    THEN Returned(max_marks, "Correct answer.")
    ELSE Returned(0, "Incorrect. The correct answer is "
                      \o UpperChar(LowerChar(Val(match))) \o ".")

\* variant: the response is trimmed but not lower-cased
MultipleChoiceCaseSensitive(response_text, marking_text, max_marks) ==
    IF IsNone(marking_text) THEN Raised("TypeError")
    ELSE MultipleChoiceMark(strip(response_text),
                            FirstMatch(SearchAnswerLetter(Val(marking_text), 1),
                                       SearchLetterIsCorrect(Val(marking_text), 1)),
                            max_marks)

\* re.search / re.finditer on None raise TypeError
_evaluate_multiple_choice(response_text, marking_text, max_marks) ==
    IF IsNone(marking_text) THEN Raised("TypeError")
    ELSE MultipleChoiceMark(lower(strip(response_text)),
                            FirstMatch(SearchAnswerLetter(Val(marking_text), 1),
                                       SearchLetterIsCorrect(Val(marking_text), 1)),
                            max_marks)

\* variant: "No numerical answer found." without the correct value
CalculationMarkSilent(response_match, correct_answer, max_marks) ==
    IF IsNone(response_match)
    THEN Returned(0, "No numerical answer found.")
    ELSE IF WithinTolerance(float(Val(response_match)), correct_answer)
    THEN Returned(max_marks, "Correct answer.")
    ELSE Returned(0, "Incorrect. The correct answer is "
                      \o FormatFloat(correct_answer) \o ".")

\* evaluator.py:165-178, response_match being the response's number (or None)
CalculationMark(response_match, correct_answer, max_marks) ==
    IF IsNone(response_match)
    THEN Returned(0, "No numerical answer found. The correct answer is "
                      \o FormatFloat(correct_answer) \o ".")
    ELSE IF WithinTolerance(float(Val(response_match)), correct_answer)
    THEN Returned(max_marks, "Correct answer.")
    ELSE Returned(0, "Incorrect. The correct answer is "
                      \o FormatFloat(correct_answer) \o ".")

\* evaluator.py:159-163, target being the marking text's number (or None)
CalculationTarget(response, target, max_marks) ==
    IF IsNone(target)
    THEN Returned(0, "Error: Could not determine the correct answer.")
    ELSE CalculationMark(SearchNumber(response, 1), float(Val(target)), max_marks)

_evaluate_calculation(response_text, marking_text, max_marks) ==
    IF IsNone(marking_text) THEN Raised("TypeError")
    ELSE CalculationTarget(strip(response_text),
                           SearchTargetNumber(Val(marking_text), 1), max_marks)

\* variant: all(...) in place of any(...)
PointFoundAll(keywords, response_tokens) ==
    \A k \in 1..Len(keywords) : \E t \in 1..Len(response_tokens) : keywords[k] = response_tokens[t]

\* variant: a point without keywords counts as found
PointFoundVacuous(keywords, response_tokens) ==
    \/ keywords = <<>>
    \/ \E k \in 1..Len(keywords) : \E t \in 1..Len(response_tokens) : keywords[k] = response_tokens[t]

\* any(keyword in response_tokens for keyword in keywords)
PointFound(keywords, response_tokens) ==
    \E k \in 1..Len(keywords) : \E t \in 1..Len(response_tokens) : keywords[k] = response_tokens[t]

RECURSIVE PointsWhere(_, _, _)
PointsWhere(kp, response_tokens, wanted) ==
    IF kp = <<>> THEN <<>>
    ELSE (IF PointFound(Head(kp).keywords, response_tokens) = wanted
          THEN <<Head(kp).point>> ELSE <<>>)
         \o PointsWhere(Tail(kp), response_tokens, wanted)

RECURSIVE PointLines(_)
PointLines(points) ==
    IF points = <<>> THEN "" ELSE "- " \o Head(points) \o "\n" \o PointLines(Tail(points))

AllPoints(kp) == [k \in 1..Len(kp) |-> kp[k].point]

\* variant: one mark per point found
CoverageScorePerPoint(max_marks, found, total) == found

\* variant: round() up in place of int()
CoverageScoreRoundedUp(max_marks, found, total) == (max_marks * found + total - 1) \div total

\* variant: round() to the nearest in place of int()
CoverageScoreNearest(max_marks, found, total) == (2 * max_marks * found + total) \div (2 * total)

\* int(max_marks * len(points_found) / len(key_points))
CoverageScore(max_marks, found, total) == (max_marks * found) \div total

\* evaluator.py:229-243
ShortAnswerFeedback(score, max_marks, points_found, points_missed, key_points) ==
    IF score = max_marks
    THEN "Excellent answer! You've covered all the key points."
    ELSE IF score > 0
    THEN "You've covered " \o ToString(Len(points_found)) \o " out of "
         \o ToString(Len(key_points)) \o " key points.\n\n"
         \o "Points covered:\n" \o PointLines(points_found)
         \o "\nPoints missed:\n" \o PointLines(points_missed)
    ELSE "Your answer didn't cover any of the key points required.\n\n"
         \o "Key points to include:\n" \o PointLines(AllPoints(key_points))

\* evaluator.py:222-245
ShortAnswerMark(score, max_marks, points_found, points_missed, key_points) ==
    [raised |-> "", score |-> score,
     feedback |-> ShortAnswerFeedback(score, max_marks, points_found, points_missed, key_points),
     found |-> points_found, missed |-> points_missed,
     total |-> Len(key_points), word_count |-> 0]

\* evaluator.py:211-226
ShortAnswerMatch(key_points, response_tokens, points_found, max_marks) ==
    ShortAnswerMark(CoverageScore(max_marks, Len(points_found), Len(key_points)), max_marks,
                    points_found, PointsWhere(key_points, response_tokens, FALSE), key_points)

\* variant: without the early return on an empty key_points
ShortAnswerPointsUnchecked(response, key_points, max_marks) ==
    IF key_points = <<>>
    THEN ShortAnswerMark(0, max_marks, <<>>, <<>>, key_points)
    ELSE ShortAnswerMatch(key_points, ResponseTokens(response),
                          PointsWhere(key_points, ResponseTokens(response), TRUE), max_marks)

\* evaluator.py:198-220
ShortAnswerPoints(response, key_points, max_marks) ==
    IF key_points = <<>>
    THEN Returned(0, "Error: Could not determine the marking criteria.")
    ELSE ShortAnswerMatch(key_points, ResponseTokens(response),
                          PointsWhere(key_points, ResponseTokens(response), TRUE), max_marks)

_evaluate_short_answer(response_text, marking_text, max_marks) ==
    IF IsNone(marking_text) THEN Raised("TypeError")
    ELSE ShortAnswerPoints(lower(strip(response_text)),
                           _extract_key_points(Val(marking_text)), max_marks)

ShortWords == 50

AdequateWords == 100

\* variant: the factors of the two lower bands exchanged
LengthFactorSwapped(word_count) ==
    IF word_count < ShortWords THEN 8
    ELSE IF word_count < AdequateWords THEN 5
    ELSE 10

\* length_factor in tenths: 0.5, 0.8, 1.0
LengthFactor(word_count) ==
    IF word_count < ShortWords THEN 5
    ELSE IF word_count < AdequateWords THEN 8
    ELSE 10

\* variant: the base score is cut to an integer before it is scaled
EssayScoreRoundedBase(max_marks, found, total, word_count) ==
    (((max_marks * found) \div total) * LengthFactor(word_count)) \div 10

\* int(base_score * length_factor), base_score = max_marks * found / total
EssayScore(max_marks, found, total, word_count) ==
    (max_marks * found * LengthFactor(word_count)) \div (total * 10)

\* evaluator.py:308-336
EssayFeedback(score, max_marks, points_found, points_missed, word_count) ==
    IF score = max_marks
    THEN "Excellent essay! You've covered all the key points with adequate depth."
    ELSE IF 10 * score > 7 * max_marks
    THEN "Good essay. You've covered most of the key points.\n\n"
         \o (IF points_missed # <<>>
             THEN "Consider including these points to improve:\n"
                  \o PointLines(points_missed)
             ELSE "")
    ELSE IF 10 * score > 4 * max_marks
    THEN "Satisfactory essay, but there's room for improvement.\n\n"
         \o "Points covered well:\n" \o PointLines(points_found)
         \o "\nPoints to include or expand on:\n" \o PointLines(points_missed)
    ELSE "Your essay needs significant improvement.\n\n"
         \o (IF points_found # <<>>
             THEN "Points covered:\n" \o PointLines(points_found) ELSE "")
         \o "\nKey points to include:\n" \o PointLines(points_missed)
         \o (IF word_count < AdequateWords
             THEN "\nYour response is too short. Aim for a more detailed explanation."
             ELSE "")

\* evaluator.py:306-338
EssayMark(score, max_marks, points_found, points_missed, total, word_count) ==
    [raised |-> "", score |-> score,
     feedback |-> EssayFeedback(score, max_marks, points_found, points_missed, word_count),
     found |-> points_found, missed |-> points_missed,
     total |-> total, word_count |-> word_count]

\* evaluator.py:279-306
EssayMatch(key_points, response_tokens, points_found, word_count, max_marks) ==
    EssayMark(EssayScore(max_marks, Len(points_found), Len(key_points), word_count), max_marks,
              points_found, PointsWhere(key_points, response_tokens, FALSE),
              Len(key_points), word_count)

\* evaluator.py:266-297
EssayPoints(response, key_points, max_marks) ==
    IF key_points = <<>>
    THEN Returned(0, "Error: Could not determine the marking criteria.")
    ELSE EssayMatch(key_points, ResponseTokens(response),
                    PointsWhere(key_points, ResponseTokens(response), TRUE),
                    Len(split(response)), max_marks)

_evaluate_essay(response_text, marking_text, max_marks) ==
    IF IsNone(marking_text) THEN Raised("TypeError")
    ELSE EssayPoints(lower(strip(response_text)),
                     _extract_key_points(Val(marking_text)), max_marks)

\* variant: the fallback is the essay policy
EvaluateGenericAsEssay(response_text, marking_text, max_marks) ==
    _evaluate_essay(response_text, marking_text, max_marks)

\* evaluator.py:353
_evaluate_generic(response_text, marking_text, max_marks) ==
    _evaluate_short_answer(response_text, marking_text, max_marks)

(***************************************************************************)
(* Hint generators (hints.py:87-357).  An outcome is the list returned or  *)
(* the exception raised.                                                   *)
(***************************************************************************)
HintsReturned(hints) == [raised |-> "", hints |-> hints]

HintsRaised(exception) == [raised |-> exception, hints |-> <<>>]

\* the loop "while len(hints) < hint_levels: hints.append(filler)"
RECURSIVE PadTo(_, _, _)
PadTo(hints, filler, n) == IF Len(hints) >= n THEN hints ELSE PadTo(Append(hints, filler), filler, n)

\* hints[:n]
Truncate(hints, n) == IF n <= 0 THEN <<>> ELSE IF Len(hints) <= n THEN hints ELSE SubSeq(hints, 1, n)

\* variant: the padded hints are returned uncut
PadWithoutCut(hints, filler, levels) == HintsReturned(PadTo(hints, filler, levels))

\* the tail of every generator: pad the hints to the number of levels,
\* return the first levels of them
PadAndCut(hints, filler, levels) == HintsReturned(Truncate(PadTo(hints, filler, levels), levels))

\* padding that repeats the last hint (hints.py:128-131)
PadWithLast(hints, levels) == PadAndCut(hints, hints[Len(hints)], levels)

\* hints.py:108-125, q being the lower-cased question text
MultipleChoiceHints(found, q) ==
    IF found
    THEN <<"Read the question carefully and consider all options before making your choice.",
           "Try to eliminate obviously incorrect options first.",
           IF Contains(q, "not") \/ Contains(q, "except")
           THEN "Be careful with negative questions - you're looking for the option that is NOT correct."
           ELSE "Look for key terms in the question that match with one of the options.">>
    ELSE <<"Read the question carefully and consider all options.",
           "Try to eliminate obviously incorrect options.",
           "Look for key terms in the question that match with one of the options.">>

\* variant: the third hint names the extracted letter
MultipleChoiceHintsDisclosing(match, question_text, levels) ==
    IF ~IsNone(match) /\ IsNone(question_text) THEN HintsRaised("AttributeError")
    ELSE IF IsNone(match) THEN PadWithLast(MultipleChoiceHints(FALSE, ""), levels)
    ELSE PadWithLast(<<MultipleChoiceHints(TRUE, "")[1], MultipleChoiceHints(TRUE, "")[2],
                       "Look closely at option " \o UpperChar(Val(match)) \o ".">>,
                     levels)

\* question_text.lower() is evaluated only when a pattern matched
MultipleChoiceHintsFor(match, question_text, levels) ==
    IF ~IsNone(match) /\ IsNone(question_text) THEN HintsRaised("AttributeError")
    ELSE PadWithLast(MultipleChoiceHints(~IsNone(match),
                                         IF IsNone(match) THEN "" ELSE lower(Val(question_text))),
                     levels)

_generate_multiple_choice_hints(question_text, marking_text, levels) ==
    IF IsNone(marking_text) THEN HintsRaised("TypeError")
    ELSE MultipleChoiceHintsFor(FirstMatch(SearchAnswerLetter(Val(marking_text), 1),
                                           SearchLetterIsCorrect(Val(marking_text), 1)),
                                question_text, levels)

\* the first position at or after j that is a newline or the end of the text
RECURSIVE RestOfLineEnd(_, _)
RestOfLineEnd(s, j) == IF j > Len(s) \/ Ch(s, j) = "\n" THEN j ELSE RestOfLineEnd(s, j + 1)

\* keyword[:\s]+(.*?)(?=\n|$), re.IGNORECASE, with the keyword ending at
\* position k - 1: the captured group, or None
LabelledLineAt(s, k) ==
    LET g == ColonSpaceRunEnd(s, k)
    IN  IF g > k THEN Some(Sub(s, g, RestOfLineEnd(s, g) - 1)) ELSE None

FormulaAt(s, i) == IF OccursAtCI(s, i, "formula") THEN LabelledLineAt(s, i + 7) ELSE None

StepsAt(s, i) ==
    IF OccursAtCI(s, i, "step")
    THEN IF LowerChar(Ch(s, i + 4)) = "s" THEN LabelledLineAt(s, i + 5) ELSE LabelledLineAt(s, i + 4)
    ELSE None

RECURSIVE SearchFormula(_, _)
SearchFormula(s, i) ==
    IF i > Len(s) THEN None
    ELSE IF ~IsNone(FormulaAt(s, i)) THEN FormulaAt(s, i) ELSE SearchFormula(s, i + 1)

RECURSIVE SearchSteps(_, _)
SearchSteps(s, i) ==
    IF i > Len(s) THEN None
    ELSE IF ~IsNone(StepsAt(s, i)) THEN StepsAt(s, i) ELSE SearchSteps(s, i + 1)

\* re.findall(r"\d+(?:\.\d+)?", text)
RECURSIVE FindNumbers(_, _)
FindNumbers(s, i) ==
    IF i > Len(s) THEN <<>>
    ELSE IF ~IsDigit(Ch(s, i)) THEN FindNumbers(s, i + 1)
    ELSE LET d == DigitRunEnd(s, i)
             e == IF Ch(s, d) = "." /\ DigitRunEnd(s, d + 1) > d + 1 THEN DigitRunEnd(s, d + 1) ELSE d
         IN  <<Sub(s, i, e - 1)>> \o FindNumbers(s, e)

\* hints.py:150-168, numbers being the numbers of the question text
CalculationHints(formula_match, steps_match, numbers) ==
    <<"Identify the key information given in the question and what you need to find.",
      IF ~IsNone(formula_match)
      THEN "Consider using the formula: " \o strip(Val(formula_match))
      ELSE "Think about which formula or mathematical relationship applies to this problem.",
      IF ~IsNone(steps_match)
      THEN "Follow these steps: " \o strip(Val(steps_match))
      ELSE IF numbers # <<>>
      THEN "Use the values given in the question (" \o Join(", ", numbers)
           \o ") and apply the appropriate formula."
      ELSE "Break down the problem into smaller steps and solve each step methodically.">>

\* re.findall on the question text is reached only without a steps match
CalculationHintsFor(formula_match, steps_match, question_text, levels) ==
    IF IsNone(steps_match) /\ IsNone(question_text) THEN HintsRaised("TypeError")
    ELSE PadAndCut(CalculationHints(formula_match, steps_match,
                                    IF IsNone(steps_match) THEN FindNumbers(Val(question_text), 1)
                                    ELSE <<>>),
                   "Check your calculations carefully and make sure your units are correct.",
                   levels)

_generate_calculation_hints(question_text, marking_text, levels) ==
    IF IsNone(marking_text) THEN HintsRaised("TypeError")
    ELSE CalculationHintsFor(SearchFormula(Val(marking_text), 1),
                             SearchSteps(Val(marking_text), 1), question_text, levels)

\* the key-point lists of the hint generators (hints.py:190-204, 251-265):
\* a Python list, so equal points are kept
RECURSIVE HintBulletPoints(_, _)
HintPoint(point) == IF point # "" THEN <<point>> ELSE <<>>

HintBulletGroup(s, g, e) == HintPoint(strip(Sub(s, g, e - 1))) \o HintBulletPoints(s, e)

HintBulletMatch(s, i, g) ==
    IF g = 0 THEN HintBulletPoints(s, i + 1) ELSE HintBulletGroup(s, g, BulletGroupEnd(s, g))

HintBulletPoints(s, i) ==
    IF i > Len(s) THEN <<>> ELSE HintBulletMatch(s, i, BulletStartAt(s, i))

RECURSIVE HintSentencePoints(_)
HintSentencePoints(sentences) ==
    IF sentences = <<>> THEN <<>>
    ELSE (IF Len(Head(sentences)) > MinSentenceLen THEN <<strip(Head(sentences))>> ELSE <<>>)
         \o HintSentencePoints(Tail(sentences))

HintBulletsOrSentences(bullets, marking_text) ==
    IF bullets # <<>> THEN bullets
    ELSE HintSentencePoints(SplitSentences(marking_text, 1, 1))

HintKeyPoints(marking_text) ==
    HintBulletsOrSentences(HintBulletPoints(marking_text, 1), marking_text)

\* point.split()[0] raises IndexError on a point without a word
HasFirstWord(point) == split(point) # <<>>

FirstWord(point) == split(point)[1]

FirstWords(points) == [k \in 1..Len(points) |-> FirstWord(points[k])]

\* the points whose first word a hint quotes: key_points[:n] of more than
\* two points, else key_points[0]
UsedPoints(key_points, n) ==
    IF Len(key_points) > 2 THEN SubSeq(key_points, 1, n)
    ELSE IF key_points # <<>> THEN SubSeq(key_points, 1, 1) ELSE <<>>

\* hints.py:207-229, q being the lower-cased question text
ShortAnswerHints(q, key_points, used) ==
    <<"Think about the key concepts related to this question.",
      IF Contains(q, "define") \/ Contains(q, "what is")
      THEN "This question is asking for a definition. Make sure your answer is clear and concise."
      ELSE IF Contains(q, "explain")
      THEN "This question is asking for an explanation. Make sure to include the 'how' and 'why'."
      ELSE IF Contains(q, "compare")
      THEN "This question is asking you to compare. Make sure to discuss similarities and differences."
      ELSE "Make sure your answer addresses all parts of the question.",
      IF key_points # <<>>
      THEN IF Len(key_points) > 2
           THEN "Your answer should include points about "
                \o Join(" and ", FirstWords(used)) \o "..."
           ELSE "Your answer should include a point about " \o FirstWord(used[1]) \o "..."
      ELSE "Make sure your answer is specific and uses appropriate terminology.">>

ShortAnswerHintsFor(q, key_points, used, levels) ==
    IF \E k \in 1..Len(used) : ~HasFirstWord(used[k]) THEN HintsRaised("IndexError")
    ELSE PadAndCut(ShortAnswerHints(q, key_points, used),
                   "Review your notes on this topic and make sure your answer is complete.",
                   levels)

ShortAnswerHintsWith(q, key_points, levels) ==
    ShortAnswerHintsFor(q, key_points, UsedPoints(key_points, 2), levels)

_generate_short_answer_hints(question_text, marking_text, levels) ==
    IF IsNone(marking_text) THEN HintsRaised("TypeError")
    ELSE IF IsNone(question_text) THEN HintsRaised("AttributeError")
    ELSE ShortAnswerHintsWith(lower(Val(question_text)), HintKeyPoints(Val(marking_text)), levels)

\* hints.py:268-290, q being the lower-cased question text
EssayHints(q, key_points, used) ==
    <<"Structure your essay with an introduction, main body paragraphs, and a conclusion.",
      IF Contains(q, "discuss")
      THEN "This question is asking you to discuss. Present different perspectives and arguments."
      ELSE IF Contains(q, "analyze") \/ Contains(q, "analyse")
      THEN "This question is asking you to analyze. Break down the topic and examine each part in detail."
      ELSE IF Contains(q, "evaluate")
      THEN "This question is asking you to evaluate. Assess the strengths and weaknesses, and make a judgment."
      ELSE "Make sure your essay addresses all aspects of the question and provides supporting evidence.",
      IF key_points # <<>>
      THEN IF Len(key_points) > 2
           THEN "Your essay should include points about "
                \o Join(", ", SubSeq(FirstWords(used), 1, 2))
                \o " and " \o FirstWord(used[3]) \o "..."
           ELSE "Your essay should include a point about " \o FirstWord(used[1]) \o "..."
      ELSE "Make sure your essay is well-structured, uses appropriate terminology, and provides evidence to support your arguments.">>

EssayHintsFor(q, key_points, used, levels) ==
    IF \E k \in 1..Len(used) : ~HasFirstWord(used[k]) THEN HintsRaised("IndexError")
    ELSE PadAndCut(EssayHints(q, key_points, used),
                   "Review your notes on this topic and make sure your essay is comprehensive and well-structured.",
                   levels)

EssayHintsWith(q, key_points, levels) ==
    EssayHintsFor(q, key_points, UsedPoints(key_points, 3), levels)

_generate_essay_hints(question_text, marking_text, levels) ==
    IF IsNone(marking_text) THEN HintsRaised("TypeError")
    ELSE IF IsNone(question_text) THEN HintsRaised("AttributeError")
    ELSE EssayHintsWith(lower(Val(question_text)), HintKeyPoints(Val(marking_text)), levels)

\* hints.py:312-328, q and m being the lower-cased question and marking texts
GraphHints(q, m) ==
    <<"Make sure you understand what type of graph you need to draw or interpret.",
      IF Contains(q, "draw") \/ Contains(q, "sketch") \/ Contains(q, "plot")
      THEN "Label your axes clearly with appropriate units and choose a suitable scale."
      ELSE "Look carefully at the axes labels and units to understand what the graph is showing.",
      IF Contains(m, "gradient") \/ Contains(m, "slope")
      THEN "Calculate the gradient (slope) of the graph by finding the change in y divided by the change in x."
      ELSE IF Contains(m, "area")
      THEN "Consider calculating the area under the graph, which may represent a physical quantity."
      ELSE IF Contains(m, "intercept")
      THEN "Find where the graph crosses the axes (the intercepts), as these points often have physical significance."
      ELSE "Look for patterns or trends in the graph and think about what they represent in the context of the question.">>

_generate_graph_hints(question_text, marking_text, levels) ==
    IF IsNone(question_text) \/ IsNone(marking_text) THEN HintsRaised("AttributeError")
    ELSE PadAndCut(GraphHints(lower(Val(question_text)), lower(Val(marking_text))),
                   "Make sure your graph is accurate, clearly labeled, and addresses all parts of the question.",
                   levels)

_generate_generic_hints(question_text, marking_text, levels) ==
    PadAndCut(<<"Read the question carefully and identify exactly what you're being asked to do.",
                "Break down the question into smaller parts and tackle each part systematically.",
                "Make sure your answer is clear, concise, and directly addresses the question.">>,
              "Review your notes on this topic and make sure your answer is complete and accurate.",
              levels)

(***************************************************************************)
(* The two entry points.  question is a Question (models.py:81-117) with   *)
(* its sub_questions (models.py:58-79); marking_scheme is a MarkingScheme  *)
(* (models.py:136-155) whose sub_marking_schemes are {id, text} entries    *)
(* (extractor.py:361-364).                                                 *)
(***************************************************************************)
\* Python truthiness of an optional string
Truthy(o) == ~IsNone(o) /\ Val(o) # ""

\* marks or 0
MarksOrZero(marks) == IF IsNone(marks) THEN 0 ELSE Val(marks)

\* variant: the first entry whatever its id
FirstEntry(seq, sub_question_id) == IF seq = <<>> THEN 0 ELSE 1

\* next((x for x in seq if x.id == sub_question_id), None): the index of
\* the first entry with that id, 0 when there is none
FirstWithId(seq, sub_question_id) ==
    IF \E k \in 1..Len(seq) : seq[k].id = sub_question_id
    THEN CHOOSE k \in 1..Len(seq) :
            seq[k].id = sub_question_id /\ \A j \in 1..(k - 1) : seq[j].id # sub_question_id
    ELSE 0

\* variant: the branches of "none" and "basic" exchanged
AdjustFeedbackSwapped(level, score, max_marks, feedback) ==
    IF level = "basic" THEN "Score: " \o ToString(score) \o "/" \o ToString(max_marks)
    ELSE IF level = "none"
    THEN "Score: " \o ToString(score) \o "/" \o ToString(max_marks) \o "\n" \o feedback
    ELSE feedback

\* the feedback-level adjustment (evaluator.py:100-104)
AdjustFeedback(level, score, max_marks, feedback) ==
    IF level = "none" THEN "Score: " \o ToString(score) \o "/" \o ToString(max_marks)
    ELSE IF level = "basic"
    THEN "Score: " \o ToString(score) \o "/" \o ToString(max_marks) \o "\n" \o feedback
    ELSE feedback

\* the dispatch on the question type (evaluator.py:85-98)
PolicyOf(question_type) ==
    IF IsNone(question_type) THEN "generic"
    ELSE IF Val(question_type) \in {"multiple_choice", "calculation", "short_answer", "essay", "graph"}
    THEN Val(question_type)
    ELSE "generic"

RunPolicy(policy, response_text, marking_text, max_marks) ==
    CASE policy = "multiple_choice" -> _evaluate_multiple_choice(response_text, marking_text, max_marks)
      [] policy = "calculation"     -> _evaluate_calculation(response_text, marking_text, max_marks)
      [] policy = "short_answer"    -> _evaluate_short_answer(response_text, marking_text, max_marks)
      [] policy = "essay"           -> _evaluate_essay(response_text, marking_text, max_marks)
      [] policy = "graph"           -> Returned(0, "Graph evaluation is not supported in this version.")
      [] OTHER                      -> _evaluate_generic(response_text, marking_text, max_marks)

\* what one call leaves behind: the arguments, the outcome (score and
\* feedback, or the exception raised) and the locals of the call
EvalRecord(response_text, sub_question_id, policy, marking_text, max_marks, out, feedback) ==
    [kind |-> "evaluate", response_text |-> response_text, sub_question_id |-> sub_question_id,
     policy |-> policy, marking_text |-> marking_text, max_marks |-> max_marks,
     raised |-> out.raised, score |-> out.score, feedback |-> feedback,
     policy_feedback |-> out.feedback, found |-> out.found, missed |-> out.missed,
     total |-> out.total, word_count |-> out.word_count, hints |-> <<>>]

\* evaluator.py:100-106: the feedback-level adjustment of what the policy
\* returned
Adjusted(response_text, sub_question_id, policy, marking_text, max_marks, out) ==
    EvalRecord(response_text, sub_question_id, policy, marking_text, max_marks, out,
               IF out.raised # "" THEN ""
               ELSE AdjustFeedback(feedback_level, out.score, max_marks, out.feedback))

Dispatched(response_text, sub_question_id, policy, marking_text, max_marks) ==
    Adjusted(response_text, sub_question_id, policy, marking_text, max_marks,
             RunPolicy(policy, response_text, marking_text, max_marks))

Dispatch(response_text, sub_question_id, question_type, marking_text, max_marks) ==
    Dispatched(response_text, sub_question_id, PolicyOf(question_type), marking_text, max_marks)

NotFound(response_text, sub_question_id, message) ==
    EvalRecord(response_text, sub_question_id, "none", None, 0, Returned(0, message), message)

\* variant: max_marks is taken from the parent question
EvaluateSubQuestionParentMarks(response_text, sub_question_id, sq, ms) ==
    IF sq = 0
    THEN NotFound(response_text, sub_question_id, "Error: Sub-question not found.")
    ELSE IF ms = 0
    THEN NotFound(response_text, sub_question_id,
                  "Error: Marking scheme not found for this sub-question.")
    ELSE Dispatch(response_text, sub_question_id,
                  IF Truthy(question.sub_questions[sq].question_type)
                  THEN question.sub_questions[sq].question_type
                  ELSE question.question_type,
                  marking_scheme.sub_marking_schemes[ms].text,
                  MarksOrZero(question.marks))

\* evaluator.py:64-83, sq and ms being the indices of the sub-question and
\* of its sub-marking-scheme (0: not found)
EvaluateSubQuestion(response_text, sub_question_id, sq, ms) ==
    IF sq = 0
    THEN NotFound(response_text, sub_question_id, "Error: Sub-question not found.")
    ELSE IF ms = 0
    THEN NotFound(response_text, sub_question_id,
                  "Error: Marking scheme not found for this sub-question.")
    ELSE Dispatch(response_text, sub_question_id,
                  IF Truthy(question.sub_questions[sq].question_type)
                  THEN question.sub_questions[sq].question_type
                  ELSE question.question_type,
                  marking_scheme.sub_marking_schemes[ms].text,
                  MarksOrZero(question.sub_questions[sq].marks))

evaluate(response_text, sub_question_id) ==
    IF Truthy(sub_question_id)
    THEN EvaluateSubQuestion(response_text, sub_question_id,
                             FirstWithId(question.sub_questions, sub_question_id),
                             FirstWithId(marking_scheme.sub_marking_schemes, sub_question_id))
    ELSE Dispatch(response_text, sub_question_id, question.question_type,
                  marking_scheme.text, MarksOrZero(question.marks))

HintRecord(sub_question_id, generator, out) ==
    [kind |-> "hints", response_text |-> "", sub_question_id |-> sub_question_id,
     policy |-> generator, marking_text |-> None, max_marks |-> 0,
     raised |-> out.raised, score |-> 0, feedback |-> "", policy_feedback |-> "",
     found |-> <<>>, missed |-> <<>>, total |-> 0, word_count |-> 0, hints |-> out.hints]

RunGenerator(generator, question_text, marking_text) ==
    CASE generator = "multiple_choice" -> _generate_multiple_choice_hints(question_text, marking_text, hint_levels)
      [] generator = "calculation"     -> _generate_calculation_hints(question_text, marking_text, hint_levels)
      [] generator = "short_answer"    -> _generate_short_answer_hints(question_text, marking_text, hint_levels)
      [] generator = "essay"           -> _generate_essay_hints(question_text, marking_text, hint_levels)
      [] generator = "graph"           -> _generate_graph_hints(question_text, marking_text, hint_levels)
      [] OTHER                         -> _generate_generic_hints(question_text, marking_text, hint_levels)

\* hints.py:70-85
Generated(sub_question_id, generator, question_text, marking_text) ==
    HintRecord(sub_question_id, generator, RunGenerator(generator, question_text, marking_text))

\* variant: the sub-marking-scheme is looked up before the predefined hints
HintsForSubQuestionSchemeFirst(sub_question_id, sq, ms) ==
    IF sq = 0
    THEN HintRecord(sub_question_id, "none", HintsReturned(<<"Error: Sub-question not found.">>))
    ELSE IF ms = 0
    THEN HintRecord(sub_question_id, "none",
                    HintsReturned(<<"Error: Marking scheme not found for this sub-question.">>))
    ELSE IF question.sub_questions[sq].hints # <<>>
    THEN HintRecord(sub_question_id, "predefined", HintsReturned(question.sub_questions[sq].hints))
    ELSE Generated(sub_question_id,
                   PolicyOf(IF Truthy(question.sub_questions[sq].question_type)
                            THEN question.sub_questions[sq].question_type
                            ELSE question.question_type),
                   question.sub_questions[sq].text,
                   marking_scheme.sub_marking_schemes[ms].text)

\* hints.py:43-63, sq and ms as in evaluate
HintsForSubQuestion(sub_question_id, sq, ms) ==
    IF sq = 0
    THEN HintRecord(sub_question_id, "none", HintsReturned(<<"Error: Sub-question not found.">>))
    ELSE IF question.sub_questions[sq].hints # <<>>
    THEN HintRecord(sub_question_id, "predefined", HintsReturned(question.sub_questions[sq].hints))
    ELSE IF ms = 0
    THEN HintRecord(sub_question_id, "none",
                    HintsReturned(<<"Error: Marking scheme not found for this sub-question.">>))
    ELSE Generated(sub_question_id,
                   PolicyOf(IF Truthy(question.sub_questions[sq].question_type)
                            THEN question.sub_questions[sq].question_type
                            ELSE question.question_type),
                   question.sub_questions[sq].text,
                   marking_scheme.sub_marking_schemes[ms].text)

generate_hints(sub_question_id) ==
    IF Truthy(sub_question_id)
    THEN HintsForSubQuestion(sub_question_id,
                             FirstWithId(question.sub_questions, sub_question_id),
                             FirstWithId(marking_scheme.sub_marking_schemes, sub_question_id))
    ELSE IF question.hints # <<>>
    THEN HintRecord(sub_question_id, "predefined", HintsReturned(question.hints))
    ELSE Generated(sub_question_id, PolicyOf(question.question_type),
                   question.text, marking_scheme.text)

(***************************************************************************)
(* The state machine.  A ResponseEvaluator and a HintGenerator are built   *)
(* over one question and its marking scheme (routes.py:203, 263); clients  *)
(* then call evaluate and generate_hints in any order.  responses and      *)
(* sub_ids are the arguments the clients may pass; result is what the last *)
(* call left behind.                                                       *)
(***************************************************************************)
NoResult ==
    [kind |-> "init", response_text |-> "", sub_question_id |-> None,
     policy |-> "none", marking_text |-> None, max_marks |-> 0,
     raised |-> "", score |-> 0, feedback |-> "", policy_feedback |-> "",
     found |-> <<>>, missed |-> <<>>, total |-> 0, word_count |-> 0, hints |-> <<>>]

Evaluate ==
    /\ \E response_text \in responses, sub_question_id \in sub_ids :
          result' = evaluate(response_text, sub_question_id)
    /\ UNCHANGED <<question, marking_scheme, feedback_level, hint_levels, responses, sub_ids, process, store>>

\* variant: the predefined hints of the question are cut to hint_levels in
\* place before they are returned
GenerateHintsInPlace ==
    /\ \E sub_question_id \in sub_ids : result' = generate_hints(sub_question_id)
    /\ question' = [question EXCEPT !.hints = Truncate(@, hint_levels)]
    /\ UNCHANGED <<marking_scheme, feedback_level, hint_levels, responses, sub_ids, process, store>>

GenerateHints ==
    /\ \E sub_question_id \in sub_ids : result' = generate_hints(sub_question_id)
    /\ UNCHANGED <<question, marking_scheme, feedback_level, hint_levels, responses, sub_ids, process, store>>

Next == Evaluate \/ GenerateHints

\* the NLTK resources the evaluator uses: the tokenizer models of
\* word_tokenize, the WordNet data of the lemmatizer, the stopword lists
NltkData == {"punkt", "wordnet", "stopwords"}

\* nltk.download(name) for each of the three resources: a download
\* installs the resource when the network is there and returns without an
\* exception when it is not
Downloaded(data, online) == IF online THEN data \cup NltkData ELSE data

\* main.py:31-71, setup_environment, which main runs before it creates and
\* runs the application (main.py:78-91): the downloads are attempted, a
\* failure is logged and the start goes on
SetupEnvironment ==
    /\ phase = "starting"
    /\ phase' = "serving"
    /\ nltk_data' = Downloaded(nltk_data, network)
    /\ UNCHANGED <<question, marking_scheme, feedback_level, hint_levels, responses, sub_ids,
                   result, network, downloads, store>>

\* ResponseEvaluator.__init__ (evaluator.py:33-43): stopwords.words raises
\* LookupError without the stopword lists; the three downloads follow and
\* the load is tried again.  WordNetLemmatizer() loads nothing.
DataAfterInit(data, online) == IF "stopwords" \in data THEN data ELSE Downloaded(data, online)

DownloadsOfInit(data) == IF "stopwords" \in data THEN 0 ELSE Cardinality(NltkData)

\* lemmatize is called for a token that passes the filters of
\* evaluator.py:205-209, 375-379
Lemmatizes(r) ==
    \/ ResponseTokens(lower(strip(r.response_text))) # <<>>
    \/ \E k \in 1..Len(r.found) : Keywords(r.found[k]) # <<>>
    \/ \E k \in 1..Len(r.missed) : Keywords(r.missed[k]) # <<>>

\* r is what the call returns with every resource installed; word_tokenize
\* (first called for a key point, evaluator.py:377, 390) raises LookupError
\* without the tokenizer models, lemmatize without the WordNet data
LookupChecked(data, r) ==
    IF /\ r.raised = ""
       /\ r.policy \in {"short_answer", "essay", "generic"}
       /\ r.total > 0
       /\ ("punkt" \notin data \/ ("wordnet" \notin data /\ Lemmatizes(r)))
    THEN [r EXCEPT !.raised = "LookupError", !.score = 0, !.feedback = "",
                   !.policy_feedback = "", !.found = <<>>, !.missed = <<>>, !.total = 0]
    ELSE r

ConstructFailed(response_text, sub_question_id) ==
    [NoResult EXCEPT !.kind = "construct", !.response_text = response_text,
                     !.sub_question_id = sub_question_id, !.raised = "LookupError"]

\* routes.py:203-204 with the resources data left by __init__
ConstructAndEvaluate(data, response_text, sub_question_id) ==
    IF "stopwords" \notin data THEN ConstructFailed(response_text, sub_question_id)
    ELSE LookupChecked(data, evaluate(response_text, sub_question_id))

\* api_evaluate (routes.py:173-229) for a question and marking scheme the
\* database holds: a request without a response text is turned down
\* (routes.py:184-186); else an evaluator is built and asked
ApiEvaluate ==
    /\ phase = "serving"
    /\ \E response_text \in responses \ {""}, sub_question_id \in sub_ids :
          result' = ConstructAndEvaluate(DataAfterInit(nltk_data, network),
                                        response_text, sub_question_id)
    /\ nltk_data' = DataAfterInit(nltk_data, network)
    /\ downloads' = DownloadsOfInit(nltk_data)
    /\ UNCHANGED <<question, marking_scheme, feedback_level, hint_levels, responses, sub_ids,
                   phase, network, store>>

NextStartup == SetupEnvironment \/ ApiEvaluate

(***************************************************************************)
(* The JSON store (database.py).  A collection is the list of documents    *)
(* its file holds; every method reads the whole list and writes it back.   *)
(* The methods are the same for every collection; the model keeps the      *)
(* user_responses collection, the one the hint route updates.              *)
(***************************************************************************)
\* models.py:172-197, the fields the store and the hint route read
UserResponse(id, user_id, question_id, sub_question_id, hints_used) ==
    [id |-> id, user_id |-> user_id, question_id |-> question_id,
     sub_question_id |-> sub_question_id, hints_used |-> hints_used]

\* str(uuid.uuid4()), the n-th identifier generated
Uuid(n) == "uuid-" \o ToString(n)

\* database.py:217-218, 263-264
WithId(model, n) == IF Truthy(model.id) THEN model ELSE [model EXCEPT !.id = Some(Uuid(n))]

\* the number of identifiers save or save_many generates for the models
RECURSIVE Generated_ids(_)
Generated_ids(models) ==
    IF models = <<>> THEN 0
    ELSE (IF Truthy(Head(models).id) THEN 0 ELSE 1) + Generated_ids(Tail(models))

\* database.py:262-266, n identifiers having been generated before
RECURSIVE WithIds(_, _)
WithIds(models, n) ==
    IF models = <<>> THEN <<>>
    ELSE IF Truthy(Head(models).id)
    THEN <<Head(models)>> \o WithIds(Tail(models), n)
    ELSE <<WithId(Head(models), n + 1)>> \o WithIds(Tail(models), n + 1)

\* database.py:234-240, the for/else: the index of the first document with
\* the id, 0 when the loop ends without a break
FirstDocument(data, id) ==
    IF \E k \in 1..Len(data) : data[k].id = id
    THEN CHOOSE k \in 1..Len(data) : data[k].id = id /\ \A j \in 1..(k - 1) : data[j].id # id
    ELSE 0

\* database.py:204-244, model with its id set
save(data, model) ==
    IF FirstDocument(data, model.id) > 0
    THEN [data EXCEPT ![FirstDocument(data, model.id)] = model]
    ELSE Append(data, model)

\* database.py:285, existing_docs: each id of the documents read, with the
\* index of the last document that has it
ExistingDoc(data, id) ==
    IF \E k \in 1..Len(data) : data[k].id = id /\ Truthy(id)
    THEN CHOOSE k \in 1..Len(data) :
            data[k].id = id /\ \A j \in (k + 1)..Len(data) : data[j].id # id
    ELSE 0

\* database.py:288-292: existing is the list as it was read, data the list
\* the loop has built so far
RECURSIVE SaveEach(_, _, _)
SaveEach(data, existing, models) ==
    IF models = <<>> THEN data
    ELSE SaveEach(IF ExistingDoc(existing, Head(models).id) > 0
                  THEN [data EXCEPT ![ExistingDoc(existing, Head(models).id)] = Head(models)]
                  ELSE Append(data, Head(models)),
                  existing, Tail(models))

\* database.py:246-296, models with their ids set
save_many(data, models) == IF models = <<>> THEN data ELSE SaveEach(data, data, models)

Keep(data, ids) ==
    LET kept(doc) == doc.id \notin ids IN SelectSeq(data, kept)

\* database.py:298-322
delete(data, id) == Keep(data, {Some(id)})

\* database.py:324-348
delete_many(data, ids) == Keep(data, {Some(id) : id \in ids})

\* largest number of documents of the collection and of generated ids
MaxDocs == 3

NoCall == [op |-> "none", models |-> <<>>, ids |-> {}]

\* the models and ids the callers pass
StoredIds == {"r1", "r2"}

Models ==
    {UserResponse(id, Some("anonymous"), Some("q1"), None, hints_used) :
        id \in {None} \cup {Some(i) : i \in StoredIds}, hints_used \in {None, Some(1)}}

ModelLists == {<<>>} \cup {<<a>> : a \in Models} \cup {<<a, b>> : a \in Models, b \in Models}

Idle == [pc |-> "idle", sub_question_id |-> None, hint_level |-> 0, status |-> 0, response |-> None]

Clients == {1, 2}

Save ==
    /\ \E model \in Models :
          /\ uuids + Generated_ids(<<model>>) <= MaxDocs
          /\ Len(save(user_responses, WithId(model, uuids + 1))) <= MaxDocs
          /\ user_responses' = save(user_responses, WithId(model, uuids + 1))
          /\ uuids' = uuids + Generated_ids(<<model>>)
          /\ db_call' = [op |-> "save", models |-> <<WithId(model, uuids + 1)>>, ids |-> {}]
    /\ UNCHANGED <<question, marking_scheme, feedback_level, hint_levels, responses, sub_ids,
                   result, process, requests>>

SaveMany ==
    /\ \E models \in ModelLists :
          /\ uuids + Generated_ids(models) <= MaxDocs
          /\ Len(save_many(user_responses, WithIds(models, uuids))) <= MaxDocs
          /\ user_responses' = save_many(user_responses, WithIds(models, uuids))
          /\ uuids' = uuids + Generated_ids(models)
          /\ db_call' = [op |-> "save_many", models |-> WithIds(models, uuids), ids |-> {}]
    /\ UNCHANGED <<question, marking_scheme, feedback_level, hint_levels, responses, sub_ids,
                   result, process, requests>>

Delete ==
    /\ \E id \in StoredIds \cup {Uuid(1)} :
          /\ user_responses' = delete(user_responses, id)
          /\ db_call' = [op |-> "delete", models |-> <<>>, ids |-> {id}]
    /\ UNCHANGED <<question, marking_scheme, feedback_level, hint_levels, responses, sub_ids,
                   result, process, uuids, requests>>

DeleteMany ==
    /\ \E ids \in SUBSET (StoredIds \cup {Uuid(1)}) :
          /\ user_responses' = delete_many(user_responses, ids)
          /\ db_call' = [op |-> "delete_many", models |-> <<>>, ids |-> ids]
    /\ UNCHANGED <<question, marking_scheme, feedback_level, hint_levels, responses, sub_ids,
                   result, process, uuids, requests>>

NextStore == Save \/ SaveMany \/ Delete \/ DeleteMany

(***************************************************************************)
(* /api/hint (routes.py:231-285).  The server handles requests in threads  *)
(* (main.py:88-92, app.run), so the requests of two clients interleave     *)
(* between the read of the stored responses and the save of the updated    *)
(* one.  question and marking_scheme are what the database holds for the   *)
(* question id of the request.                                             *)
(***************************************************************************)
question_id == "q1"

\* request.cookies.get('user_id', 'anonymous')
user_id == "anonymous"

\* routes.py:277-279, the first response of the user for the question and
\* the sub-question, 0 when there is none
FirstResponse(data, sub_question_id) ==
    IF \E k \in 1..Len(data) : /\ data[k].user_id = Some(user_id)
                               /\ data[k].question_id = Some(question_id)
                               /\ data[k].sub_question_id = sub_question_id
    THEN CHOOSE k \in 1..Len(data) :
            /\ data[k].user_id = Some(user_id)
            /\ data[k].question_id = Some(question_id)
            /\ data[k].sub_question_id = sub_question_id
            /\ \A j \in 1..(k - 1) : ~(/\ data[j].user_id = Some(user_id)
                                       /\ data[j].question_id = Some(question_id)
                                       /\ data[j].sub_question_id = sub_question_id)
    ELSE 0

\* response.hints_used or 0
UsedOrZero(hints_used) == IF IsNone(hints_used) THEN 0 ELSE Val(hints_used)

\* routes.py:280, max(response.hints_used or 0, hint_level + 1)
HintsUsed(hints_used, hint_level) ==
    Some(IF UsedOrZero(hints_used) >= hint_level + 1 THEN UsedOrZero(hints_used)
         ELSE hint_level + 1)

\* routes.py:262-280 up to the save: generated is what generate_hints
\* gave, data the responses read, k the index of the response to update
HintRequest(sub_question_id, hint_level, generated, data, k) ==
    IF generated.raised # ""
    THEN [Idle EXCEPT !.sub_question_id = sub_question_id, !.hint_level = hint_level,
                      !.status = 500]
    ELSE IF hint_level < 0 \/ hint_level >= Len(generated.hints)
    THEN [Idle EXCEPT !.sub_question_id = sub_question_id, !.hint_level = hint_level,
                      !.status = 400]
    ELSE IF k = 0
    THEN [Idle EXCEPT !.sub_question_id = sub_question_id, !.hint_level = hint_level,
                      !.status = 200]
    ELSE [pc |-> "saving", sub_question_id |-> sub_question_id, hint_level |-> hint_level,
          status |-> 0,
          response |-> Some([data[k] EXCEPT !.hints_used = HintsUsed(@, hint_level)])]

\* ASSESSMENT_CONFIG (config.py:93-98)
default_feedback_level == "detailed"

default_hint_levels == 3

\* the hint levels a client may ask for
HintLevels == -1..default_hint_levels

\* api_hint from its start to the read of the user's responses
ApiHintRead(c) ==
    /\ requests[c].pc = "idle"
    /\ \E sub_question_id \in sub_ids, hint_level \in HintLevels :
          requests' = [requests EXCEPT ![c] =
                          HintRequest(sub_question_id, hint_level,
                                      generate_hints(sub_question_id), user_responses,
                                      FirstResponse(user_responses, sub_question_id))]
    /\ UNCHANGED <<question, marking_scheme, feedback_level, hint_levels, responses, sub_ids,
                   result, process, user_responses, uuids, db_call>>

\* routes.py:281-285, db.save(response) and the answer
ApiHintSave(c) ==
    /\ requests[c].pc = "saving"
    /\ user_responses' = save(user_responses, Val(requests[c].response))
    /\ db_call' = [op |-> "save", models |-> <<Val(requests[c].response)>>, ids |-> {}]
    /\ requests' = [requests EXCEPT ![c] = [@ EXCEPT !.pc = "idle", !.status = 200]]
    /\ UNCHANGED <<question, marking_scheme, feedback_level, hint_levels, responses, sub_ids,
                   result, process, uuids>>

NextHint == \E c \in Clients : ApiHintRead(c) \/ ApiHintSave(c)

(***************************************************************************)
(* Initial states: the questions, marking schemes and arguments each       *)
(* specification ranges over.  The configuration is ASSESSMENT_CONFIG      *)
(* (config.py:93-98).                                                      *)
(***************************************************************************)
Question(question_type, marks, text, hints, sub_questions) ==
    [question_type |-> question_type, marks |-> marks, text |-> text,
     hints |-> hints, sub_questions |-> sub_questions]

SubQuestion(id, question_type, marks, text, hints) ==
    [id |-> id, question_type |-> question_type, marks |-> marks, text |-> text, hints |-> hints]

MarkingScheme(text, sub_marking_schemes) ==
    [text |-> text, sub_marking_schemes |-> sub_marking_schemes]

\* largest marks value of the generated questions
MaxMarks == 3

Compose(prefixes, cores, suffixes) ==
    {p \o c \o x : p \in prefixes, c \in cores, x \in suffixes}

\* nothing is stored and no hint request is in flight
EmptyStore ==
    /\ user_responses = <<>>
    /\ uuids = 0
    /\ db_call = NoCall
    /\ requests = [c \in Clients |-> Idle]

\* the application is serving with every resource installed
Installed ==
    /\ phase = "serving"
    /\ nltk_data = NltkData
    /\ network = TRUE
    /\ downloads = 0
    /\ EmptyStore

InitConfig ==
    /\ Installed
    /\ feedback_level = default_feedback_level
    /\ hint_levels = default_hint_levels
    /\ result = NoResult

\* multiple-choice questions: marking texts around an answer statement
MCMarkingTexts ==
    Compose({"", "The ", "The correct ", "Answer a is wrong; ", "b is correct, not ", "Answer:\n"},
            {"answer: c", "Answer: C", "answer c", "C is correct", "see the notes"},
            {"", ".", "at", "\nd is correct"})

MCResponses == {"C", " c ", "c", "a", "B", "e", "cc", ""}

InitMC ==
    /\ InitConfig
    /\ question \in {Question(Some("multiple_choice"), Some(m), Some("Which option is right?"), <<>>, <<>>) :
                        m \in {0, 1, MaxMarks}}
    /\ marking_scheme \in {MarkingScheme(Some(t), <<>>) : t \in MCMarkingTexts}
    /\ responses = MCResponses
    /\ sub_ids = {None}

SpecMC == InitMC /\ [][Next]_vars

\* calculation questions: marking texts around a target value
CalcMarkingTexts ==
    Compose({"", "The ", "x = 7 so ", "The correct "},
            {"answer: 42.5", "answer: 12", "answer is 12", "= 12", "Answer:\n+12.0"},
            {"", "7", ".", " m"})

CalcResponses ==
    {"42.5", "42.5001", "42.51", "42.501", "42.499", "42.4989", "42.5011", "+42.50",
     "Final answer: 12.0", "12", "12.001", "11.999", "v2 = 42.5", "no idea", "-42.5", ""}

InitCalc ==
    /\ InitConfig
    /\ question \in {Question(Some("calculation"), Some(m), Some("Find the mass."), <<>>, <<>>) :
                        m \in {0, 1, MaxMarks}}
    /\ marking_scheme \in {MarkingScheme(Some(t), <<>>) : t \in CalcMarkingTexts}
    /\ responses = CalcResponses
    /\ sub_ids = {None}

SpecCalc == InitCalc /\ [][Next]_vars

\* short-answer questions
ShortMarkingTexts ==
    {"- Mention photosynthesis\n- Mention chlorophyll",
     "1. Plants use light\n2. Leaves: chlorophyll\n3. Makes glucose",
     "* Light energy\n* Water\n* Oxygen is a gas\n* Glucose",
     "Plants use light energy. Cells need water. Ok.",
     "* a\n* It is",
     "* Light energy\n* It is",
     ""}

ShortResponses ==
    {"plants use chlorophyll", "", "Photosynthesis!", "I mention it",
     "light and glucose", "Leaf has chlorophyll; plants need light for glucose",
     "Water, oxygen", "gases: oxygen. glucose, water; LIGHT"}

InitShort ==
    /\ InitConfig
    /\ question \in {Question(Some("short_answer"), Some(m), Some("Explain how plants feed."), <<>>, <<>>) :
                        m \in 0..(MaxMarks + 2)}
    /\ marking_scheme \in {MarkingScheme(Some(t), <<>>) : t \in ShortMarkingTexts}
    /\ responses = ShortResponses
    /\ sub_ids = {None}

SpecShort == InitShort /\ [][Next]_vars

\* essay questions: responses of a chosen length, a base text padded with
\* a word that is no keyword
RECURSIVE Repeat(_, _)
Repeat(w, k) ==
    IF k <= 0 THEN "" ELSE IF k = 1 THEN w
    ELSE Repeat(w, k \div 2) \o Repeat(w, k - k \div 2)

Padded(base, n) == base \o Repeat(" p", n - Len(split(base)))

EssayMarkingTexts ==
    {"- Mention photosynthesis\n- Mention chlorophyll",
     "1. Plants use light\n2. Leaves: chlorophyll\n3. Makes glucose"}

EssayBases == {"", "chlorophyll", "photosynthesis and chlorophyll; light makes glucose"}

EssayWordCounts == {7, ShortWords - 1, ShortWords, AdequateWords - 1, AdequateWords}

InitEssay ==
    /\ InitConfig
    /\ question \in {Question(Some("essay"), Some(m), Some("Discuss how plants feed."), <<>>, <<>>) :
                        m \in 0..(3 * MaxMarks)}
    /\ marking_scheme \in {MarkingScheme(Some(t), <<>>) : t \in EssayMarkingTexts}
    /\ responses = {Padded(b, n) : b \in EssayBases, n \in EssayWordCounts}
    /\ sub_ids = {None}

SpecEssay == InitEssay /\ [][Next]_vars

\* the general case: every question type, unset fields, precomputed hints,
\* sub-questions with and without a sub-marking-scheme
AllInOne == "- Mention light\n- Mention water\nAnswer: c\nformula: F = ma\n= 12"

QuestionTypes ==
    {None, Some("multiple_choice"), Some("calculation"), Some("short_answer"),
     Some("essay"), Some("graph"), Some("other")}

SubQuestions ==
    <<SubQuestion(Some("a"), None, Some(MaxMarks), Some("Explain 3 plots."), <<>>),
      SubQuestion(Some("b"), Some("multiple_choice"), None, Some("Which is it?"), <<"Look at option c.">>),
      SubQuestion(Some("c"), Some("essay"), Some(1), None, <<>>)>>

SubMarkingSchemes ==
    <<[id |-> Some("a"), text |-> Some(AllInOne)],
      [id |-> Some("b"), text |-> Some("b is correct")]>>

GeneralMarkingSchemes ==
    {MarkingScheme(t, sms) :
        t \in {None, Some(""), Some("            "), Some(AllInOne)},
        sms \in {<<>>, SubMarkingSchemes}}

GeneralSubIds == {None, Some(""), Some("a"), Some("b"), Some("z")}

feedback_levels == {"none", "basic", "detailed"}

Init ==
    /\ Installed
    /\ feedback_level \in feedback_levels
    /\ hint_levels = default_hint_levels
    /\ result = NoResult
    /\ question \in {Question(t, m, Some("Explain why 3 is not 4.5"), <<>>, sq) :
                        t \in QuestionTypes,
                        m \in {None, Some(0), Some(MaxMarks)},
                        sq \in {<<>>, SubQuestions}}
    /\ marking_scheme \in GeneralMarkingSchemes
    /\ responses = {"c", "12 lights", ""}
    /\ sub_ids = GeneralSubIds

Spec == Init /\ [][Next]_vars

\* calculation questions under every feedback level
InitCalcLevels ==
    /\ Installed
    /\ feedback_level \in feedback_levels
    /\ hint_levels = default_hint_levels
    /\ result = NoResult
    /\ question \in {Question(Some("calculation"), Some(m), Some("Find the mass."), <<>>, <<>>) :
                        m \in {0, MaxMarks}}
    /\ marking_scheme \in {MarkingScheme(Some(t), <<>>) :
                              t \in {"The answer: 42.5 m", "x = 7 so answer: 12", "= 100\nAnswer: .5",
                                     "The answer is 12"}}
    /\ responses = CalcResponses
    /\ sub_ids = {None}

SpecCalcLevels == InitCalcLevels /\ [][Next]_vars

\* hint generation: the configured number of levels varies, questions
\* carry precomputed hints or none, texts may be unset
MaxHintLevels == 5

InitHints ==
    /\ Installed
    /\ feedback_level = default_feedback_level
    /\ hint_levels \in {1, default_hint_levels, MaxHintLevels}
    /\ result = NoResult
    /\ question \in {Question(t, Some(MaxMarks), x, h, sq) :
                        t \in QuestionTypes,
                        x \in {None, Some("Explain why 3 is not 4.5")},
                        h \in {<<>>, <<"Think.", "Think again.">>},
                        sq \in {<<>>, SubQuestions}}
    /\ marking_scheme \in GeneralMarkingSchemes
    /\ responses = {"c"}
    /\ sub_ids = GeneralSubIds

SpecHints == InitHints /\ [][Next]_vars

\* key-point extraction alone: the evaluator's _extract_key_points
\* (evaluator.py:355-395) and the extraction the short-answer and essay
\* hint generators make (hints.py:189-204, 250-265), applied to the same
\* marking text
KeyPointsRecord(marking_text) ==
    [kind |-> "key_points", marking_text |-> Some(marking_text),
     key_points |-> _extract_key_points(marking_text),
     hint_key_points |-> HintKeyPoints(marking_text)]

ExtractKeyPoints ==
    /\ ~IsNone(marking_scheme.text)
    /\ result' = KeyPointsRecord(Val(marking_scheme.text))
    /\ UNCHANGED <<question, marking_scheme, feedback_level, hint_levels, responses, sub_ids, process, store>>

NextExtract == ExtractKeyPoints

\* marking texts of up to three lines: bullets, numbered points, repeated
\* points, empty bullets, plain sentences and continuation lines
MarkingLines ==
    {"- Light", "* Light ", "2. Water", "", "Plants use light energy.", "-  ", "Short.",
     "  from the sun"}

InitExtract ==
    /\ InitConfig
    /\ question = Question(Some("short_answer"), Some(MaxMarks), Some("Explain how plants feed."),
                           <<>>, <<>>)
    /\ marking_scheme \in {MarkingScheme(Some(a \o "\n" \o b \o "\n" \o c), <<>>) :
                              a \in MarkingLines, b \in MarkingLines, c \in MarkingLines}
    /\ responses = {"light"}
    /\ sub_ids = {None}

SpecExtract == InitExtract /\ [][NextExtract]_vars

\* the start of the process: any of the resources may be missing, with or
\* without a network
InitStartup ==
    /\ phase = "starting"
    /\ nltk_data \in SUBSET NltkData
    /\ network \in BOOLEAN
    /\ downloads = 0
    /\ EmptyStore
    /\ feedback_level = default_feedback_level
    /\ hint_levels = default_hint_levels
    /\ result = NoResult
    /\ question \in {Question(Some(t), Some(MaxMarks), Some("Explain how plants feed."), <<>>, <<>>) :
                        t \in {"multiple_choice", "short_answer", "essay", "other"}}
    /\ marking_scheme \in {MarkingScheme(Some(t), <<>>) : t \in {AllInOne, "", "- a\n- It is"}}
    /\ responses = {"c", "12 lights", "the", ""}
    /\ sub_ids = {None}

SpecStartup == InitStartup /\ [][NextStartup]_vars

\* the store alone: the collection file is created empty
\* (database.py:96-101) and the callers save and delete
InitStore ==
    /\ InitConfig
    /\ question = Question(Some("short_answer"), Some(MaxMarks), Some("Explain how plants feed."),
                           <<>>, <<>>)
    /\ marking_scheme = MarkingScheme(Some(AllInOne), <<>>)
    /\ responses = {"light"}
    /\ sub_ids = {None}

SpecStore == InitStore /\ [][NextStore]_vars

\* hint requests: the store holds responses of the user to the question
\* and to its sub-question a, a response of another user and one to
\* another question; sub-question a has two hints of its own
StoredResponses ==
    {<<UserResponse(Some("r1"), Some(user_id), Some(question_id), None, h),
       UserResponse(Some("r2"), Some("someone"), Some(question_id), None, Some(2)),
       UserResponse(Some("r3"), Some(user_id), Some("q2"), None, None),
       UserResponse(Some("r4"), Some(user_id), Some(question_id), Some("a"), Some(1)),
       UserResponse(Some("r5"), Some(user_id), Some(question_id), None, None)>> :
        h \in {None, Some(1)}}

InitHintRequests ==
    /\ phase = "serving"
    /\ nltk_data = NltkData
    /\ network = TRUE
    /\ downloads = 0
    /\ feedback_level = default_feedback_level
    /\ hint_levels = default_hint_levels
    /\ result = NoResult
    /\ question \in {Question(Some("short_answer"), Some(MaxMarks), x, <<>>,
                              <<SubQuestion(Some("a"), None, Some(1), Some("Name one input."),
                                            <<"Think.", "Think again.">>)>>) :
                        x \in {None, Some("Explain how plants feed.")}}
    /\ marking_scheme = MarkingScheme(Some(AllInOne), <<>>)
    /\ responses = {"light"}
    /\ sub_ids = {None, Some("a")}
    /\ user_responses \in StoredResponses
    /\ uuids = 0
    /\ db_call = NoCall
    /\ requests = [c \in Clients |-> Idle]

SpecHintRequests == InitHintRequests /\ [][NextHint]_vars

(***************************************************************************)
(* Properties.  RetEvaluate holds of the state an evaluate call that       *)
(* returned leaves behind.                                                 *)
(***************************************************************************)
Evaluated == result.kind = "evaluate"

RetEvaluate == Evaluated /\ result.raised = ""

MarkingTextIs(t) == result.marking_text = Some(t)

\* C1: every evaluate call that returns, returns a score with
\* 0 <= score <= max_marks, max_marks being the marks of the question or of
\* the addressed sub-question (0 when the marks are unset).
ScoreWithinMarks ==
    RetEvaluate =>
        /\ result.score \in 0..result.max_marks
        /\ result.policy # "none" =>
              result.max_marks =
                 IF Truthy(result.sub_question_id)
                 THEN MarksOrZero(question.sub_questions[
                          FirstWithId(question.sub_questions, result.sub_question_id)].marks)
                 ELSE MarksOrZero(question.marks)

\* a call that earned part of the marks
PartialCredit == RetEvaluate /\ 0 < result.score /\ result.score < result.max_marks

\* a single letter other than c, in either case
OtherLetters == {"a", "B", "e"}

FullMarksForC == {"C", " c ", "c"}

MultipleChoiceOutcome ==
    /\ result.response_text \in FullMarksForC => result.score = result.max_marks
    /\ result.response_text \in OtherLetters =>
          result.score = 0 /\ result.policy_feedback = "Incorrect. The correct answer is C."

\* C2 as stated: whenever the multiple-choice marking text contains
\* "answer: c", the responses "C", " c " and "c" score full marks and any
\* other single letter scores 0 with feedback naming C.
AnswerCAnywhere ==
    (RetEvaluate /\ result.policy = "multiple_choice"
       /\ Contains(Val(result.marking_text), "answer: c"))
    => MultipleChoiceOutcome

\* C2: when the leftmost match of the answer pattern in the multiple-choice
\* marking text captures the letter c, the responses "C", " c " and "c"
\* score full marks and any other single letter scores 0 with feedback
\* naming C.
LeftmostAnswerC ==
    (RetEvaluate /\ result.policy = "multiple_choice"
       /\ SearchAnswerLetter(Val(result.marking_text), 1) \in {Some("c"), Some("C")})
    => MultipleChoiceOutcome

\* text before and after the answer statement, full marks for " c "
AnswerCInsideText ==
    /\ RetEvaluate /\ MarkingTextIs("The correct answer: c\nd is correct")
    /\ result.response_text = " c "
    /\ result.score = result.max_marks /\ result.max_marks > 0

\* the first numeric substring of the response and its decimal value
ResponseNumber == SearchNumber(strip(result.response_text), 1)

Target425 == 425 * (Scale \div 10)

Thousandth == Scale \div 1000

Distance == Abs(float(Val(ResponseNumber)).n - Target425)

\* C3 as stated: whenever the calculation marking text contains
\* "answer: 42.5", a response of value v scores full marks if
\* |v - 42.5| < 0.001 and 0 otherwise.
TargetAnywhereStrictTolerance ==
    (RetEvaluate /\ result.policy = "calculation"
       /\ Contains(Val(result.marking_text), "answer: 42.5") /\ ~IsNone(ResponseNumber))
    => /\ Distance < Thousandth => result.score = result.max_marks
       /\ Distance >= Thousandth => result.score = 0

\* C3: when the leftmost match of the target pattern in the calculation
\* marking text captures 42.5, a response whose first numeric substring has
\* the value v scores full marks if |v - 42.5| <= 0.001 (at the distance
\* 0.001 exactly, the difference of the doubles is below the double 0.001)
\* and 0 if |v - 42.5| > 0.001 or the response holds no number.
LeftmostTarget425 ==
    (RetEvaluate /\ result.policy = "calculation"
       /\ SearchTargetNumber(Val(result.marking_text), 1) = Some("42.5"))
    => IF IsNone(ResponseNumber) THEN result.score = 0
       ELSE /\ Distance <= Thousandth => result.score = result.max_marks
            /\ Distance > Thousandth => result.score = 0

\* full marks at the distance 0.001, text around the answer statement
BoundaryResponse ==
    /\ RetEvaluate /\ MarkingTextIs("The correct answer: 42.5 m")
    /\ result.response_text = "42.501"
    /\ result.score = result.max_marks /\ result.max_marks > 0

Scenario1 == Evaluated /\ result.policy = "calculation" /\ result.response_text = "Final answer: 12.0"

\* C4 as stated: marking text "The answer is 12" and response
\* "Final answer: 12.0" give score = max_marks and "Correct answer.".
AnswerIsTwelveCorrect ==
    (Scenario1 /\ MarkingTextIs("The answer is 12"))
    => /\ result.raised = "" /\ result.score = result.max_marks
       /\ result.feedback = "Correct answer."

\* C4: marking text "The answer is 12" and response "Final answer: 12.0"
\* give score 0 and "Error: Could not determine the correct answer." (the
\* target pattern admits only colons and whitespace between "answer" and
\* the number); with the marking text "The answer: 12" the same response
\* gives score = max_marks and "Correct answer.".
AnswerIsTwelveUndetermined ==
    /\ (Scenario1 /\ MarkingTextIs("The answer is 12"))
       => /\ result.raised = "" /\ result.score = 0
          /\ result.feedback = "Error: Could not determine the correct answer."
    /\ (Scenario1 /\ MarkingTextIs("The answer: 12"))
       => /\ result.raised = "" /\ result.score = result.max_marks
          /\ result.feedback = "Correct answer."

Scenario1Evaluated ==
    /\ Scenario1 /\ MarkingTextIs("The answer is 12")
    /\ result.max_marks > 0 /\ result.score = 0

Scenario2 ==
    /\ Evaluated /\ result.policy = "short_answer"
    /\ MarkingTextIs("- Mention photosynthesis\n- Mention chlorophyll")
    /\ result.max_marks = 2 /\ result.response_text = "plants use chlorophyll"

\* C5: in scenario 2 exactly one key point is matched, the score is 1, and
\* the feedback lists "Mention chlorophyll" as covered and
\* "Mention photosynthesis" as missed.
Scenario2Outcome ==
    Scenario2 =>
        /\ result.raised = "" /\ result.total = 2
        /\ result.found = <<"Mention chlorophyll">>
        /\ result.missed = <<"Mention photosynthesis">>
        /\ result.score = 1
        /\ Contains(result.feedback, "Points covered:\n- Mention chlorophyll\n\nPoints missed:\n- Mention photosynthesis\n")

Scenario2Evaluated == Scenario2 /\ result.score = 1

ShortAnswered(r) == r.kind = "evaluate" /\ r.policy = "short_answer" /\ r.raised = ""

\* two consecutive short-answer evaluations (same marking text, same marks)
MoreMatchedNoLess ==
    (ShortAnswered(result) /\ ShortAnswered(result') /\ Len(result.found) <= Len(result'.found))
    => result.score <= result'.score

\* C6 as stated: the short-answer score is non-decreasing in the number of
\* matched key points and equals max_marks iff all extracted key points are
\* matched.
ShortScoreFullIffAll ==
    [][/\ MoreMatchedNoLess
       /\ ShortAnswered(result') =>
             (result'.score = result'.max_marks <=> Len(result'.found) = result'.total)]_vars

\* C6: the short-answer score is non-decreasing in the number of matched
\* key points and, when max_marks > 0 and at least one key point is
\* extracted, equals max_marks iff all extracted key points are matched.
ShortScoreFullIffAllOfSome ==
    [][/\ MoreMatchedNoLess
       /\ (ShortAnswered(result') /\ result'.max_marks > 0 /\ result'.total > 0) =>
             (result'.score = result'.max_marks <=> Len(result'.found) = result'.total)]_vars

\* some but not all points matched for part of the marks
SomePointsMatched ==
    /\ ShortAnswered(result) /\ result.total >= 3
    /\ Len(result.found) = 2
    /\ 0 < result.score /\ result.score < result.max_marks

EssayAnswered(r) == r.kind = "evaluate" /\ r.policy = "essay" /\ r.raised = ""

\* C7: of two essay evaluations with the same marks and the same points
\* found, the one with no fewer words scores no less; so from 49 to 50 and
\* from 99 to 100 words.
EssayScoreMonotoneInLength ==
    [][(/\ EssayAnswered(result) /\ EssayAnswered(result')
        /\ result.found = result'.found
        /\ result.word_count <= result'.word_count)
       => result.score <= result'.score]_vars

\* an essay that reached the upper band with every point found
LongEssayFullMarks ==
    /\ EssayAnswered(result) /\ result.word_count = AdequateWords
    /\ result.missed = <<>> /\ result.found # <<>>
    /\ result.score = result.max_marks /\ result.max_marks > 0

\* C8: every generate_hints call returns exactly hint_levels strings.
ExactlyHintLevelsHints ==
    result.kind = "hints" => (result.raised = "" /\ Len(result.hints) = hint_levels)

HasEntry(seq, id) == \E k \in 1..Len(seq) : seq[k].id = id

ReturnedError(message) ==
    /\ result.raised = "" /\ result.score = 0
    /\ result.feedback = message /\ result.policy = "none"

\* C9: an evaluate call with a sub_question_id (a non-empty one: the code
\* takes an empty id for none, evaluator.py:62) for which the question has
\* no sub-question returns (0, "Error: Sub-question not found."); one for
\* which only the sub-marking-scheme is missing returns score 0 and the
\* marking-scheme "not found" feedback; neither raises or runs a policy.
SubQuestionNotFound ==
    (Evaluated /\ Truthy(result.sub_question_id)) =>
        /\ ~HasEntry(question.sub_questions, result.sub_question_id)
              => ReturnedError("Error: Sub-question not found.")
        /\ (/\ HasEntry(question.sub_questions, result.sub_question_id)
            /\ ~HasEntry(marking_scheme.sub_marking_schemes, result.sub_question_id))
              => ReturnedError("Error: Marking scheme not found for this sub-question.")

\* an id the question's sub-questions do not have
UnknownSubQuestion ==
    /\ Evaluated /\ result.sub_question_id = Some("z")
    /\ question.sub_questions # <<>> /\ marking_scheme.sub_marking_schemes # <<>>
    /\ result.feedback = "Error: Sub-question not found."

\* C10: every evaluate call returns a (score, feedback) pair, also for a
\* marking scheme or sub-question whose text or marks were never set.
EvaluateNeverRaises == Evaluated => result.raised = ""

\* the score line of evaluator.py:102, 104
ScoreLine(score, max_marks) == "Score: " \o ToString(score) \o "/" \o ToString(max_marks)

\* the feedback evaluate returns for a policy feedback, per level
AtLevel(score_line, policy_feedback) ==
    IF feedback_level = "none" THEN score_line
    ELSE IF feedback_level = "basic" THEN score_line \o "\n" \o policy_feedback
    ELSE policy_feedback

\* the call's marking text is a string in which the policy of the call
\* finds nothing: no correct-answer match, or no key point
NoExpectedPattern ==
    /\ Evaluated
    /\ ~IsNone(result.marking_text)
    /\ CASE result.policy = "multiple_choice" ->
              /\ IsNone(SearchAnswerLetter(Val(result.marking_text), 1))
              /\ IsNone(SearchLetterIsCorrect(Val(result.marking_text), 1))
         [] result.policy = "calculation" ->
              IsNone(SearchTargetNumber(Val(result.marking_text), 1))
         [] result.policy \in {"short_answer", "essay", "generic"} ->
              _extract_key_points(Val(result.marking_text)) = <<>>
         [] OTHER -> FALSE

CouldNotDetermine ==
    IF result.policy \in {"multiple_choice", "calculation"}
    THEN "Error: Could not determine the correct answer."
    ELSE "Error: Could not determine the marking criteria."

\* C11 as stated: whenever the marking text matches no expected pattern,
\* evaluate returns score 0 and a feedback that carries the "could not
\* determine" message.
ExtractionFailureMessage ==
    NoExpectedPattern =>
        /\ result.raised = ""
        /\ result.score = 0
        /\ Contains(result.feedback, CouldNotDetermine)

\* C11 (amended): whenever the marking text is a string that matches no
\* expected pattern, evaluate returns score 0; the policy's feedback is the
\* "could not determine" message, which the returned feedback carries at the
\* levels "detailed" (alone) and "basic" (after the score line), while at
\* the level "none" the returned feedback is the score line only.
ExtractionFailureMessageAtLevel ==
    NoExpectedPattern =>
        /\ result.raised = ""
        /\ result.score = 0
        /\ result.policy_feedback = CouldNotDetermine
        /\ result.feedback = AtLevel(ScoreLine(0, result.max_marks), CouldNotDetermine)
        /\ feedback_level # "none" => Contains(result.feedback, CouldNotDetermine)

ExtractionFailed ==
    /\ NoExpectedPattern
    /\ result.policy = "short_answer"
    /\ feedback_level = "basic"
    /\ result.max_marks = MaxMarks

\* a calculation call whose marking text yields a target value
TargetExtracted ==
    /\ Evaluated
    /\ result.policy = "calculation"
    /\ ~IsNone(result.marking_text)
    /\ ~IsNone(SearchTargetNumber(Val(result.marking_text), 1))

\* "The correct answer is <target>." with the target as Python prints the
\* float
DisclosedValue ==
    "The correct answer is "
    \o FormatFloat(float(Val(SearchTargetNumber(Val(result.marking_text), 1)))) \o "."

NoNumberInResponse == IsNone(SearchNumber(strip(result.response_text), 1))

\* C12 as stated: with a target extracted, a response without a number gets
\* score 0 and a feedback that states the correct value, and every outcome
\* below full marks discloses the correct value.
CorrectValueDisclosed ==
    TargetExtracted =>
        /\ result.raised = ""
        /\ NoNumberInResponse => result.score = 0
        /\ (NoNumberInResponse \/ result.score < result.max_marks) =>
              Contains(result.feedback, DisclosedValue)

\* C12 (amended): with a target extracted, a response without a number gets
\* score 0 and the policy feedback "No numerical answer found. The correct
\* answer is <target>."; every outcome that is not "Correct answer." has
\* score 0 and a policy feedback that ends with the correct value; the
\* returned feedback carries it at the levels "detailed" and "basic" and is
\* the score line only at the level "none".
CorrectValueDisclosedAtLevel ==
    TargetExtracted =>
        /\ result.raised = ""
        /\ NoNumberInResponse =>
              /\ result.score = 0
              /\ result.policy_feedback = "No numerical answer found. " \o DisclosedValue
        /\ result.policy_feedback # "Correct answer." =>
              /\ result.score = 0
              /\ result.policy_feedback \in {"No numerical answer found. " \o DisclosedValue,
                                             "Incorrect. " \o DisclosedValue}
        /\ result.policy_feedback = "Correct answer." => result.score = result.max_marks
        /\ result.feedback = AtLevel(ScoreLine(result.score, result.max_marks),
                                     result.policy_feedback)

WrongValueAtBasicLevel ==
    /\ TargetExtracted
    /\ feedback_level = "basic"
    /\ result.response_text = "42.51"
    /\ result.policy_feedback = "Incorrect. The correct answer is 42.5."

\* C13: the feedback level is applied after whichever policy ran and leaves
\* the score alone: the returned score is the policy's, and the returned
\* feedback is "Score: s/max" at "none", that line, a newline and the policy
\* feedback at "basic", and the policy feedback at "detailed".
FeedbackVerbosity ==
    (RetEvaluate /\ result.policy # "none") =>
        /\ result.score = RunPolicy(result.policy, result.response_text,
                                    result.marking_text, result.max_marks).score
        /\ result.policy_feedback = RunPolicy(result.policy, result.response_text,
                                              result.marking_text, result.max_marks).feedback
        /\ feedback_level = "none" =>
              result.feedback = ScoreLine(result.score, result.max_marks)
        /\ feedback_level = "basic" =>
              result.feedback = ScoreLine(result.score, result.max_marks)
                                \o "\n" \o result.policy_feedback
        /\ feedback_level = "detailed" => result.feedback = result.policy_feedback

BasicLevelPartialCredit ==
    /\ RetEvaluate
    /\ feedback_level = "basic"
    /\ result.policy = "short_answer"
    /\ result.score > 0
    /\ result.score < result.max_marks

\* the question type the dispatch of the last call saw
EffectiveType ==
    IF ~Truthy(result.sub_question_id) THEN question.question_type
    ELSE IF Truthy(question.sub_questions[FirstWithId(question.sub_questions,
                                                      result.sub_question_id)].question_type)
    THEN question.sub_questions[FirstWithId(question.sub_questions,
                                            result.sub_question_id)].question_type
    ELSE question.question_type

NamedTypes == {"multiple_choice", "calculation", "short_answer", "essay", "graph"}

\* C16: the policy is a function of the question type alone: for "graph"
\* it yields score 0 with the fixed "not supported" message whatever the
\* response and the marking text, and for every type outside
\* multiple_choice, calculation, short_answer, essay and graph (also an
\* unset type) it yields what the short_answer policy yields for the same
\* response, marking text and max_marks.
DispatchPureMapping ==
    (Evaluated /\ result.policy # "none") =>
        /\ EffectiveType = Some("graph") =>
              /\ result.raised = ""
              /\ result.score = 0
              /\ result.policy_feedback = "Graph evaluation is not supported in this version."
        /\ (IsNone(EffectiveType) \/ Val(EffectiveType) \notin NamedTypes) =>
              LET short == _evaluate_short_answer(result.response_text, result.marking_text,
                                                  result.max_marks)
              IN  /\ result.raised = short.raised
                  /\ result.score = short.score
                  /\ result.policy_feedback = short.feedback
        /\ (~IsNone(EffectiveType) /\ Val(EffectiveType) \in NamedTypes) =>
              result.policy = Val(EffectiveType)

OtherTypePartialCredit ==
    /\ RetEvaluate
    /\ result.policy = "generic"
    /\ EffectiveType = Some("other")
    /\ result.response_text = "12 lights"
    /\ result.score = 1

ReturnedHints == result.kind = "hints"

\* the hints the question or sub-question addressed by the last
\* generate_hints call carries (none when the sub-question does not exist)
AddressedHints ==
    IF ~Truthy(result.sub_question_id) THEN question.hints
    ELSE IF FirstWithId(question.sub_questions, result.sub_question_id) = 0 THEN <<>>
    ELSE question.sub_questions[FirstWithId(question.sub_questions, result.sub_question_id)].hints

\* C14: when the addressed question or sub-question carries a non-empty
\* list of precomputed hints, generate_hints returns exactly that list and
\* generates nothing, whatever the question type and the marking text.
PrecomputedHintsVerbatim ==
    (ReturnedHints /\ AddressedHints # <<>>) =>
        /\ result.raised = ""
        /\ result.hints = AddressedHints
        /\ result.policy = "predefined"

PrecomputedWithoutScheme ==
    /\ ReturnedHints
    /\ result.sub_question_id = Some("b")
    /\ marking_scheme.sub_marking_schemes = <<>>
    /\ result.hints = <<"Look at option c.">>

\* the marking text and question text the last generate_hints call handed
\* to its generator
HintMarkingText ==
    IF ~Truthy(result.sub_question_id) THEN marking_scheme.text
    ELSE marking_scheme.sub_marking_schemes[
             FirstWithId(marking_scheme.sub_marking_schemes, result.sub_question_id)].text

HintQuestionText ==
    IF ~Truthy(result.sub_question_id) THEN question.text
    ELSE question.sub_questions[FirstWithId(question.sub_questions, result.sub_question_id)].text

\* the letter the multiple-choice patterns extract from a text, lower-cased
CorrectLetter(t) ==
    IF IsNone(FirstMatch(SearchAnswerLetter(t, 1), SearchLetterIsCorrect(t, 1))) THEN ""
    ELSE LowerChar(Val(FirstMatch(SearchAnswerLetter(t, 1), SearchLetterIsCorrect(t, 1))))

ReplaceAt(t, p, c) == Sub(t, 1, p - 1) \o c \o From(t, p + 1)

\* the texts that differ from t only in which option letter is the correct
\* answer: one option letter of t, the one extracted, is replaced by
\* another, which is then the one extracted
OtherAnswerTexts(t) ==
    {ReplaceAt(t, p, l) : p \in {q \in 1..Len(t) : LowerChar(Ch(t, q)) = CorrectLetter(t)},
                          l \in {"a", "b", "c", "d", "e"} \ {CorrectLetter(t)}}

DiffersInAnswerOnly(t) == {u \in OtherAnswerTexts(t) : CorrectLetter(u) \notin {"", CorrectLetter(t)}}

\* C17: generated multiple-choice hints do not depend on which option
\* letter is the correct answer: for the same question text and
\* hint_levels, every marking text that differs from the call's only in
\* the correct letter yields the same hints.
HintsHideAnswer ==
    (ReturnedHints /\ result.policy = "multiple_choice" /\ ~IsNone(HintMarkingText)) =>
        \A u \in DiffersInAnswerOnly(Val(HintMarkingText)) :
            _generate_multiple_choice_hints(HintQuestionText, Some(u), hint_levels)
                = [raised |-> result.raised, hints |-> result.hints]

AnswerLetterVaried ==
    /\ ReturnedHints
    /\ result.policy = "multiple_choice"
    /\ result.raised = ""
    /\ ~IsNone(HintMarkingText)
    /\ Cardinality({CorrectLetter(u) : u \in DiffersInAnswerOnly(Val(HintMarkingText))}) = 4
    /\ Len(result.hints) = MaxHintLevels

\* C18: evaluate and generate_hints leave the question, its sub-questions,
\* the marking scheme, the feedback level and hint_levels as they were, and
\* what a call returns is what the same call returns on its own, whatever
\* calls came before it.
StatelessCalls ==
    [][/\ question' = question
       /\ marking_scheme' = marking_scheme
       /\ feedback_level' = feedback_level
       /\ hint_levels' = hint_levels
       /\ result'.kind = "evaluate" =>
             result' = evaluate(result'.response_text, result'.sub_question_id)
       /\ result'.kind = "hints" => result' = generate_hints(result'.sub_question_id)]_vars

PrecomputedHintsKept ==
    /\ ReturnedHints
    /\ result.policy = "predefined"
    /\ hint_levels = 1
    /\ question.hints = <<"Think.", "Think again.">>
    /\ result.hints = question.hints

\* C20: for every marking text, the key points the short-answer and essay
\* hint generators extract are the key points _extract_key_points yields:
\* the same texts, as many, in the same order.
HintsOverSameKeyPoints ==
    result.kind = "key_points" => result.hint_key_points = AllPoints(result.key_points)

\* C19: when normalization data is missing, the initialization step fails
\* (so the process serves requests only with the data installed), and no
\* evaluate request fails or triggers a download because of a missing
\* resource.
MissingDataFailsInitialization ==
    /\ phase = "serving" => NltkData \subseteq nltk_data
    /\ result.kind \in {"construct", "evaluate"} =>
          /\ result.raised # "LookupError"
          /\ downloads = 0

\* the members of a sequence
Range(seq) == {seq[k] : k \in 1..Len(seq)}

\* the key points of the call's marking text that have a keyword among the
\* normalized tokens of the response, in the order of extraction
PointsWithKeywordIn(kp, tokens) ==
    SelectSeq(AllPoints(kp),
              LAMBDA p : \E k \in 1..Len(kp) :
                            kp[k].point = p /\ Range(kp[k].keywords) \cap Range(tokens) # {})

\* C21: with at least one key point extracted, the short-answer score is
\* floor(max_marks * found / total), total being the number of extracted
\* key points and found the number of those with a keyword among the
\* normalized response tokens; exactly those points count as found.
ShortScoreIsFloorOfCoverage ==
    (ShortAnswered(result) /\ result.total > 0) =>
        /\ result.total = Len(_extract_key_points(Val(result.marking_text)))
        /\ result.found = PointsWithKeywordIn(_extract_key_points(Val(result.marking_text)),
                                              ResponseTokens(lower(strip(result.response_text))))
        /\ result.score * result.total <= result.max_marks * Len(result.found)
        /\ result.max_marks * Len(result.found) < (result.score + 1) * result.total

TwoOfThreePointsOfFive ==
    /\ ShortAnswered(result)
    /\ result.total = 3
    /\ Len(result.found) = 2
    /\ result.max_marks = MaxMarks + 2
    /\ result.score = 3

\* the length factor in tenths, by the number of whitespace-separated words
FactorOfWords(n) == IF n < 50 THEN 5 ELSE IF n < 100 THEN 8 ELSE 10

\* C22: with at least one key point extracted, the essay score is
\* floor(base * factor), base = max_marks * found / total not rounded, and
\* factor = 0.5 below 50 whitespace-separated words, 0.8 from 50 to 99 and
\* 1.0 from 100 on.
EssayScoreIsFloorOfScaledBase ==
    (EssayAnswered(result) /\ result.total > 0) =>
        /\ result.word_count = Len(split(lower(strip(result.response_text))))
        /\ result.found = PointsWithKeywordIn(_extract_key_points(Val(result.marking_text)),
                                              ResponseTokens(lower(strip(result.response_text))))
        /\ result.total = Len(_extract_key_points(Val(result.marking_text)))
        /\ result.score * result.total * 10
              <= result.max_marks * Len(result.found) * FactorOfWords(result.word_count)
        /\ result.max_marks * Len(result.found) * FactorOfWords(result.word_count)
              < (result.score + 1) * result.total * 10

ScaledBaseNotRounded ==
    /\ EssayAnswered(result)
    /\ result.total = 2
    /\ Len(result.found) = 1
    /\ result.max_marks = 5
    /\ result.word_count = ShortWords
    /\ result.score = 2

\* the first position at or after j where a marker line begins, or the
\* position after the end of the text
RECURSIVE NextMarker(_, _)
NextMarker(s, j) ==
    IF j > Len(s) \/ MarkerAt(s, j) > 0 THEN j ELSE NextMarker(s, j + 1)

\* C23: in list segmentation a key point spans from its marker up to the
\* next marker line or the end of the text, continuation lines included;
\* stated for the point of a marker on the first line.
MultiLinePointWhole ==
    (/\ result.kind = "key_points"
     /\ BulletStartAt(Val(result.marking_text), 1) > 0
     /\ strip(Sub(Val(result.marking_text), BulletStartAt(Val(result.marking_text), 1),
                  NextMarker(Val(result.marking_text),
                             BulletStartAt(Val(result.marking_text), 1)) - 1)) # "")
    => /\ result.key_points # <<>>
       /\ result.key_points[1].point =
             strip(Sub(Val(result.marking_text), BulletStartAt(Val(result.marking_text), 1),
                       NextMarker(Val(result.marking_text),
                                  BulletStartAt(Val(result.marking_text), 1)) - 1))

\* the sentences of a text that are longer than 10 characters, stripped
LongSentences(t) ==
    {strip(SplitSentences(t, 1, 1)[k]) :
        k \in {j \in 1..Len(SplitSentences(t, 1, 1)) : Len(SplitSentences(t, 1, 1)[j]) > 10}}

\* C24: sentence segmentation is used only when list segmentation yields
\* no point: with a non-empty bullet or numbered point in the text the key
\* points are the list points, and otherwise the sentences longer than 10
\* characters, each once, are the points and no shorter sentence is.
SentencesOnlyWithoutListPoints ==
    result.kind = "key_points" =>
        /\ Len(result.key_points) = Cardinality(Range(AllPoints(result.key_points)))
        /\ IF HintBulletPoints(Val(result.marking_text), 1) # <<>>
           THEN /\ Range(AllPoints(result.key_points))
                      = Range(HintBulletPoints(Val(result.marking_text), 1))
                /\ result.key_points = BulletPoints(Val(result.marking_text), 1, <<>>)
           ELSE Range(AllPoints(result.key_points)) = LongSentences(Val(result.marking_text))

SentenceBesideListPoint ==
    /\ result.kind = "key_points"
    /\ result.marking_text = Some("- Light\nPlants use light energy.\nShort.")
    /\ AllPoints(result.key_points) = <<"Light">>

Generators == {"multiple_choice", "calculation", "short_answer", "essay", "graph", "generic"}

\* every generator builds three hints before it pads (hints.py:108-125,
\* 150-168, 207-229, 268-290, 312-328, 346-350)
SubstantiveCount == 3

\* the hints the generator of the last call builds for three levels
SubstantiveHints ==
    (CASE result.policy = "multiple_choice" ->
            _generate_multiple_choice_hints(HintQuestionText, HintMarkingText, SubstantiveCount)
       [] result.policy = "calculation" ->
            _generate_calculation_hints(HintQuestionText, HintMarkingText, SubstantiveCount)
       [] result.policy = "short_answer" ->
            _generate_short_answer_hints(HintQuestionText, HintMarkingText, SubstantiveCount)
       [] result.policy = "essay" ->
            _generate_essay_hints(HintQuestionText, HintMarkingText, SubstantiveCount)
       [] result.policy = "graph" ->
            _generate_graph_hints(HintQuestionText, HintMarkingText, SubstantiveCount)
       [] OTHER ->
            _generate_generic_hints(HintQuestionText, HintMarkingText, SubstantiveCount)).hints

\* the string a generator pads with: its closing hint, and for
\* multiple_choice the last of its three hints
ClosingHint ==
    CASE result.policy = "multiple_choice" -> SubstantiveHints[SubstantiveCount]
      [] result.policy = "calculation" ->
            "Check your calculations carefully and make sure your units are correct."
      [] result.policy = "short_answer" ->
            "Review your notes on this topic and make sure your answer is complete."
      [] result.policy = "essay" ->
            "Review your notes on this topic and make sure your essay is comprehensive and well-structured."
      [] result.policy = "graph" ->
            "Make sure your graph is accurate, clearly labeled, and addresses all parts of the question."
      [] OTHER ->
            "Review your notes on this topic and make sure your answer is complete and accurate."

\* C25: every generator that returns, returns exactly hint_levels entries:
\* the first hint_levels of its substantive hints in their order when
\* hint_levels is smaller than their number, and when it is larger all of
\* them followed by one and the same closing string in every added entry.
PaddedWithClosingHintOrCut ==
    (ReturnedHints /\ result.policy \in Generators /\ result.raised = "") =>
        /\ Len(result.hints) = hint_levels
        /\ \A k \in 1..hint_levels :
              result.hints[k] = IF k <= SubstantiveCount THEN SubstantiveHints[k] ELSE ClosingHint

PaddedToMaxLevels ==
    /\ ReturnedHints
    /\ result.policy = "calculation"
    /\ result.raised = ""
    /\ hint_levels = MaxHintLevels
    /\ result.hints[MaxHintLevels] = result.hints[MaxHintLevels - 1]
    /\ result.hints[MaxHintLevels] # result.hints[SubstantiveCount]

\* C26: in the short-answer policy, with key points extracted and a score
\* below max_marks, the feedback names every found point as covered and
\* every missed point as missed, and never says that no key point was
\* covered when a point was found.
FeedbackNamesFoundAndMissed ==
    (ShortAnswered(result) /\ result.total > 0 /\ result.score < result.max_marks) =>
        /\ Contains(result.feedback, PointLines(result.missed))
        /\ result.found # <<>> =>
              /\ Contains(result.feedback, "Points covered:\n" \o PointLines(result.found))
              /\ ~Contains(result.feedback, "didn't cover any of the key points")

\* the sub-question the last call addressed
AddressedSubQuestion ==
    question.sub_questions[FirstWithId(question.sub_questions, result.sub_question_id)]

\* C27: an evaluated sub-question is judged by the policy of its own type
\* if it has one and of the parent's type otherwise, against the text of
\* the sub-marking-scheme with its id, and out of its own marks (0 when
\* unset), never the parent's.
SubQuestionOwnTypeAndMarks ==
    (Evaluated /\ Truthy(result.sub_question_id) /\ result.policy # "none") =>
        /\ result.policy =
              (IF Truthy(AddressedSubQuestion.question_type)
               THEN IF Val(AddressedSubQuestion.question_type) \in NamedTypes
                    THEN Val(AddressedSubQuestion.question_type) ELSE "generic"
               ELSE IF Truthy(question.question_type)
                       /\ Val(question.question_type) \in NamedTypes
                    THEN Val(question.question_type) ELSE "generic")
        /\ \E k \in 1..Len(marking_scheme.sub_marking_schemes) :
              /\ marking_scheme.sub_marking_schemes[k].id = result.sub_question_id
              /\ marking_scheme.sub_marking_schemes[k].text = result.marking_text
        /\ result.max_marks = (IF IsNone(AddressedSubQuestion.marks) THEN 0
                               ELSE Val(AddressedSubQuestion.marks))

SubQuestionFullMarksParentZero ==
    /\ RetEvaluate
    /\ result.sub_question_id = Some("a")
    /\ question.question_type = Some("calculation")
    /\ question.marks = Some(0)
    /\ result.policy = "calculation"
    /\ result.score = MaxMarks

\* C28: a key point without keywords is never counted as found, so with
\* max_marks > 0 and such a point in the marking text no response reaches
\* the full short-answer score.
EmptyKeywordPointNeverFound ==
    (ShortAnswered(result) /\ result.total > 0) =>
        \A k \in 1..Len(_extract_key_points(Val(result.marking_text))) :
            _extract_key_points(Val(result.marking_text))[k].keywords = <<>> =>
                /\ _extract_key_points(Val(result.marking_text))[k].point \notin Range(result.found)
                /\ _extract_key_points(Val(result.marking_text))[k].point \in Range(result.missed)
                /\ result.max_marks > 0 => result.score < result.max_marks

OtherPointFoundBesideEmpty ==
    /\ ShortAnswered(result)
    /\ result.marking_text = Some("* Light energy\n* It is")
    /\ result.found = <<"Light energy">>
    /\ result.missed = <<"It is">>
    /\ result.max_marks = MaxMarks + 2
    /\ result.score = (MaxMarks + 2) \div 2

\* C29: over every step of interleaved /api/hint requests each stored
\* response stays stored with a hints_used that is no smaller than before,
\* and a request turned down for its hint level changes no stored response.
HintsUsedNeverDecreases ==
    [][/\ \A k \in 1..Len(user_responses) : \E j \in 1..Len(user_responses') :
             /\ user_responses'[j].id = user_responses[k].id
             /\ UsedOrZero(user_responses'[j].hints_used) >= UsedOrZero(user_responses[k].hints_used)
       /\ \A c \in Clients :
             (requests'[c] # requests[c] /\ requests'[c].status = 400) =>
                 user_responses' = user_responses]_vars

OneDocumentPerId(data) == \A i \in 1..Len(data), j \in 1..Len(data) : data[i].id = data[j].id => i = j

\* C30: after every save, save_many, delete and delete_many call the
\* collection holds at most one document per id; a save of a stored id
\* replaces that document in place and leaves the count unchanged, and a
\* save of a new id adds exactly one document.
AtMostOneDocumentPerId ==
    [][/\ OneDocumentPerId(user_responses')
       /\ db_call'.op = "save" =>
             IF \E k \in 1..Len(user_responses) : user_responses[k].id = db_call'.models[1].id
             THEN /\ Len(user_responses') = Len(user_responses)
                  /\ \A k \in 1..Len(user_responses) :
                        user_responses'[k] = IF user_responses[k].id = db_call'.models[1].id
                                             THEN db_call'.models[1] ELSE user_responses[k]
             ELSE user_responses' = Append(user_responses, db_call'.models[1])]_vars

====
